---- MODULE Spec2Model ----
(***************************************************************************)
(* A model of MoAstro: the ImageLog record store (moastro/imagelog.py),    *)
(* the dotted-path reader (moastro/dbtools.py) and the configuration set   *)
(* of the Astromatic wrappers and their command lines                      *)
(* (moastro/astromatic.py).                                                *)
(*                                                                         *)
(* Documents are trees.  A document is a function from field names to      *)
(* nodes; a node is a scalar or an embedded document.  A dotted field name *)
(* "a.b" is the sequence of its parts <<"a", "b">>, which is what          *)
(* key.split(".") yields and what ".".join builds.                         *)
(***************************************************************************)
EXTENDS Integers, Sequences, FiniteSets, TLC

VARIABLES c, queryMask, last, nops, configs, written, cfgLast,
          swarp, disk, dumps, writers, command, batch, phase, up,
          stage, files, settings, decomp

vars == <<c, queryMask, last, nops, configs, written, cfgLast,
          swarp, disk, dumps, writers, command, batch, phase, up,
          stage, files, settings, decomp>>
storeVars == <<c, queryMask, last, nops>>
configVars == <<configs, written, cfgLast>>
diskVars == <<disk, dumps, writers>>
batchVars == <<batch, phase, up>>
moreVars == <<stage, files, settings, decomp>>
stageVars == <<swarp, diskVars, command, batchVars, moreVars>>

\* ------------------------------------------------------------------ bounds
\* Number of write operations applied to the collection in one behaviour.
MaxOps == 2
\* Number of times a batch coordinator is run in one behaviour.
MaxRuns == 2

\* ------------------------------------------------------------- documents
EmptyFn == [x \in {} |-> x]

\* A scalar value of a document (a string).
S(v) == [t |-> "s", v |-> v, d |-> EmptyFn]
\* An embedded document.
D(f) == [t |-> "d", v |-> "", d |-> f]

FnRemove(f, x) == [y \in DOMAIN f \ {x} |-> f[y]]

\* The image keys; img03 is never a record of the collection.  The tuple is
\* in ascending (list.sort) order.
KeyOrder == <<"img01", "img02", "img03">>
Keys == {KeyOrder[i] : i \in DOMAIN KeyOrder}
Vals == {"A", "B"}

Id(doc) == doc["_id"].v

\* ------------------------------------------------ the document collection
\* A query condition on one field: equality, {"$in": vs} or {"$exists": 1}.
Eq(v) == [op |-> "eq", v |-> v, vs |-> {}]
In(vs) == [op |-> "in", v |-> "", vs |-> vs]
Exists == [op |-> "exists", v |-> "", vs |-> {}]

\* The node a dotted path names in a document of the store, as the store
\* resolves it: "hit" with the node, or "miss".
RECURSIVE Lookup(_, _)
Lookup(f, p) ==
    IF p[1] \notin DOMAIN f THEN [hit |-> FALSE, n |-> S("")]
    ELSE IF Len(p) = 1 THEN [hit |-> TRUE, n |-> f[p[1]]]
    ELSE IF f[p[1]].t = "d" THEN Lookup(f[p[1]].d, Tail(p))
    ELSE [hit |-> FALSE, n |-> S("")]

CondHolds(doc, p, cnd) ==
    LET r == Lookup(doc, p) IN
    CASE cnd.op = "eq" -> r.hit /\ r.n = S(cnd.v)
      [] cnd.op = "in" -> r.hit /\ r.n.t = "s" /\ r.n.v \in cnd.vs
      [] OTHER -> r.hit

\* A document matches a selector when it meets the condition of every field.
Matches(doc, q) == \A p \in DOMAIN q : CondHolds(doc, p, q[p])

\* collection.find(selector): the matching documents.
MongoFind(coll, q) == {doc \in coll : Matches(doc, q)}

\* {"$set": {path: node}} on one document.  Writing below a scalar, or
\* changing _id, is rejected by the store and leaves the document as it was.
RECURSIVE SetIn(_, _, _)
SetIn(f, p, n) ==
    IF Len(p) = 1 THEN (p[1] :> n) @@ f
    ELSE IF p[1] \notin DOMAIN f
         THEN (p[1] :> D(SetIn(EmptyFn, Tail(p), n))) @@ f
    ELSE IF f[p[1]].t = "d"
         THEN (p[1] :> D(SetIn(f[p[1]].d, Tail(p), n))) @@ f
    ELSE f

MongoSet(doc, p, n) ==
    IF p[1] = "_id" THEN doc ELSE SetIn(doc, p, n)

\* {"$unset": {path: 1}} on one document.
RECURSIVE UnsetIn(_, _)
UnsetIn(f, p) ==
    IF p[1] \notin DOMAIN f THEN f
    ELSE IF Len(p) = 1 THEN FnRemove(f, p[1])
    ELSE IF f[p[1]].t = "d"
         THEN (p[1] :> D(UnsetIn(f[p[1]].d, Tail(p)))) @@ f
    ELSE f

MongoUnset(doc, p) ==
    IF p[1] = "_id" THEN doc ELSE UnsetIn(doc, p)

\* {"$rename": {old: new}} on one document (top-level names).
MongoRename(doc, old, new) ==
    IF old \notin DOMAIN doc \/ old = "_id" \/ new = "_id" \/ old = new
    THEN doc
    ELSE (new :> doc[old]) @@ FnRemove(doc, old)

\* collection.update(selector, modifier, multi): the collections the update
\* can leave.  With multi the modifier is applied to every matching document,
\* without it to the first one the store finds (any one of them).  There is
\* no upsert: when nothing matches nothing changes.
MongoUpdate(coll, q, mod, multi) ==
    LET m == MongoFind(coll, q) IN
    IF m = {} THEN {coll}
    ELSE IF multi THEN {(coll \ m) \cup {mod[doc] : doc \in m}}
    ELSE {(coll \ {doc}) \cup {mod[doc]} : doc \in m}

\* --------------------------------------------------------------- ImageLog
None == "None"

\* ImageLog._insert_query_mask: the mask's fields the selector does not name
\* are added to a copy of the selector.
insert_query_mask(selector) ==
    [p \in DOMAIN selector \cup DOMAIN queryMask |->
        IF p \in DOMAIN selector THEN selector[p] ELSE queryMask[p]]

\* ImageLog.__getitem__: selector = {"_id": key}; selector.update(queryMask).
getitem_selector(key) ==
    LET selector == <<"_id">> :> Eq(key) IN
    [p \in DOMAIN selector \cup DOMAIN queryMask |->
        IF p \in DOMAIN queryMask THEN queryMask[p] ELSE selector[p]]

\* ImageLog.find / find_images: the mask is inserted, then
\* selector.update({"_id": {"$in": images}}) when images is not None.
find_selector(selector, images) ==
    LET s == insert_query_mask(selector) IN
    IF images.given
    THEN [p \in DOMAIN s \cup {<<"_id">>} |->
            IF p = <<"_id">> THEN In(images.ks) ELSE s[p]]
    ELSE s

\* ImageLog.rename_field and delete_files: the mask is inserted, then
\* selector.update({dataKey: {"$exists": 1}}).
exists_selector(selector, dataKey) ==
    LET s == insert_query_mask(selector) IN
    [p \in DOMAIN s \cup {dataKey} |-> IF p = dataKey THEN Exists ELSE s[p]]

\* ImageLog.set: the field written, ".".join((str(ext), key)) when ext is given.
set_path(key, ext) == IF ext = None THEN key ELSE <<ext>> \o key

\* A set that writes the whole sub-document, {"$set": {ext: {key: value}}},
\* where the code writes the dotted field.
ImageLog_set_replace(coll, imageKey, key, value, ext) ==
    MongoUpdate(coll, <<"_id">> :> Eq(imageKey),
                [doc \in coll |->
                    IF ext = None THEN MongoSet(doc, key, S(value))
                    ELSE MongoSet(doc, <<ext>>,
                                  D(SetIn(EmptyFn, key, S(value))))],
                FALSE)

\* A set that updates with upsert=True: a record is made when none matches.
ImageLog_set_upsert(coll, imageKey, key, value, ext) ==
    IF MongoFind(coll, <<"_id">> :> Eq(imageKey)) = {}
    THEN {coll \cup {MongoSet("_id" :> S(imageKey), set_path(key, ext),
                              S(value))}}
    ELSE MongoUpdate(coll, <<"_id">> :> Eq(imageKey),
                     [doc \in coll |-> MongoSet(doc, set_path(key, ext), S(value))],
                     FALSE)

\* A set that appends the value to the one the field holds, where the code
\* replaces it.
ImageLog_set_append(coll, imageKey, key, value, ext) ==
    MongoUpdate(coll, <<"_id">> :> Eq(imageKey),
                [doc \in coll |->
                    LET old == Lookup(doc, set_path(key, ext)) IN
                    MongoSet(doc, set_path(key, ext),
                             IF old.hit /\ old.n.t = "s"
                             THEN S(old.n.v \o value) ELSE S(value))],
                FALSE)

\* ImageLog.set: update({"_id": imageKey}, {"$set": {path: value}}).
ImageLog_set(coll, imageKey, key, value, ext) ==
    MongoUpdate(coll, <<"_id">> :> Eq(imageKey),
                [doc \in coll |-> MongoSet(doc, set_path(key, ext), S(value))],
                FALSE)

\* find_images: imageKeys.sort().
SortKeys(ks) == SelectSeq(KeyOrder, LAMBDA k : k \in ks)

\* find_dict: records[doc['_id']] = doc for every document of the cursor.
DictOf(docs) ==
    [k \in {Id(doc) : doc \in docs} |-> CHOOSE doc \in docs : Id(doc) = k]

\* ------------------------------------------------------------ dbtools.reach
\* reach(doc, key) on a node: the value, or the exception raised.  Indexing
\* a dict with a missing key raises KeyError; indexing a scalar (a string)
\* with a field name raises TypeError.
Raise(kind) == [kind |-> kind, n |-> S("")]
Value(n) == [kind |-> "value", n |-> n]

Index(node, name) ==
    IF node.t # "d" THEN Raise("TypeError")
    ELSE IF name \notin DOMAIN node.d THEN Raise("KeyError")
    ELSE Value(node.d[name])

RECURSIVE reach(_, _)
reach(node, parts) ==
    LET r == Index(node, parts[1]) IN
    IF Len(parts) > 1
    THEN IF r.kind = "value" THEN reach(r.n, Tail(parts)) ELSE r
    ELSE r

\* ReachableDoc.__getitem__: dict lookup of the first part, reach for the rest.
ReachableDoc_getitem(doc, parts) ==
    IF Len(parts) > 1
    THEN IF parts[1] \in DOMAIN doc
         THEN reach(doc[parts[1]], Tail(parts))
         ELSE Raise("KeyError")
    ELSE IF parts[1] \in DOMAIN doc THEN Value(doc[parts[1]])
         ELSE Raise("KeyError")

\* ------------------------------------------------------------------ inputs
INSTRUME == <<"INSTRUME">>

\* The masks a store is built with: none, one instrument, one image.
Masks == {EmptyFn, INSTRUME :> Eq("A"), <<"_id">> :> Eq("img01")}

\* The selectors callers pass.
Selectors ==
    {EmptyFn, INSTRUME :> Eq("A"), INSTRUME :> Eq("B"),
     <<"_id">> :> Eq("img01")}

\* The images argument: None, or a list of keys.
NoImages == [given |-> FALSE, ks |-> {}]
ImagesOf(ks) == [given |-> TRUE, ks |-> ks]
ImagesArgs ==
    {NoImages, ImagesOf({"img01", "img03"}), ImagesOf({"img02"}),
     ImagesOf({"img01", "img02"})}

\* The optional selector of rename_field, delete_field and delete_files.
OmittedSelector == [none |-> TRUE, s |-> EmptyFn]
SelectorArgs ==
    {OmittedSelector} \cup {[none |-> FALSE, s |-> s] : s \in Selectors}

\* (key, ext) pairs written by set.
SetTargets ==
    {<<INSTRUME, None>>, <<(<<"cat">>), "0">>, <<(<<"0", "cat">>), None>>,
     <<(<<"_id">>), None>>}

\* Fields renamed and deleted.
RenamePairs == {<<"INSTRUME", "0">>, <<"0", "INSTRUME">>}
DataKeys == {INSTRUME, <<"0">>, <<"0", "cat">>}
ReadPaths == {INSTRUME, <<"0", "cat">>, <<"INSTRUME", "cat">>,
              <<"1", "cat">>, <<"0", "cat", "x">>}

\* The collection the store holds when the ImageLog is opened: img01 of
\* instrument A with one extension, img02 of instrument B without.
InitialCollection ==
    { [f \in {"_id", "INSTRUME", "0"} |->
          CASE f = "_id" -> S("img01")
            [] f = "INSTRUME" -> S("A")
            [] OTHER -> D([g \in {"cat", "psf"} |-> S("A")])],
      [f \in {"_id", "INSTRUME"} |->
          IF f = "_id" THEN S("img02") ELSE S("B")] }

\* --------------------------------------------------------------- the state
\* last: the latest call on the ImageLog, its arguments, the selector it
\* sent to the collection and what it returned.
NoCall ==
    [op |-> "none", key |-> "", path |-> <<>>, new |-> "", val |-> "",
     ext |-> None, sel |-> EmptyFn, omitted |-> FALSE, images |-> NoImages,
     flag |-> FALSE, query |-> EmptyFn, ret |-> {}, keys |-> <<>>,
     vals |-> {}, dict |-> EmptyFn, got |-> Raise("none")]

\* One document of a cursor, or nothing (find_one's None) when it is empty.
OneOf(docs) == IF docs = {} THEN {{}} ELSE {{doc} : doc \in docs}

Selector(arg) == IF arg.none THEN EmptyFn ELSE arg.s

\* ------------------------------------------------------- ImageLog: queries
\* imageLog[key]
GetItem(key) ==
    LET q == getitem_selector(key) IN
    /\ \E r \in OneOf(MongoFind(c, q)) :
          last' = [NoCall EXCEPT !.op = "getitem", !.key = key,
                                 !.query = q, !.ret = r]
    /\ UNCHANGED <<c, queryMask, nops>>
    /\ UNCHANGED <<configVars, stageVars>>

\* find(selector, images, one)
Find(selector, images, one) ==
    LET q == find_selector(selector, images)
        m == MongoFind(c, q) IN
    /\ \E r \in (IF one THEN OneOf(m) ELSE {m}) :
          last' = [NoCall EXCEPT !.op = "find", !.sel = selector,
                                 !.images = images, !.flag = one,
                                 !.query = q, !.ret = r]
    /\ UNCHANGED <<c, queryMask, nops>>
    /\ UNCHANGED <<configVars, stageVars>>

\* find_dict(selector, images)
FindDict(selector, images) ==
    LET q == find_selector(selector, images)
        m == MongoFind(c, q) IN
    /\ last' = [NoCall EXCEPT !.op = "find_dict", !.sel = selector,
                              !.images = images, !.query = q, !.ret = m,
                              !.dict = DictOf(m)]
    /\ UNCHANGED <<c, queryMask, nops>>
    /\ UNCHANGED <<configVars, stageVars>>

\* find_images(selector, images)
FindImages(selector, images) ==
    LET q == find_selector(selector, images)
        m == MongoFind(c, q) IN
    /\ last' = [NoCall EXCEPT !.op = "find_images", !.sel = selector,
                              !.images = images, !.query = q, !.ret = m,
                              !.keys = SortKeys({Id(doc) : doc \in m})]
    /\ UNCHANGED <<c, queryMask, nops>>
    /\ UNCHANGED <<configVars, stageVars>>

\* distinct(field, selector, images): find(...).distinct(field)
Distinct(field, selector, images) ==
    LET q == find_selector(selector, images)
        m == MongoFind(c, q) IN
    /\ last' = [NoCall EXCEPT !.op = "distinct", !.path = field,
                              !.sel = selector, !.images = images,
                              !.query = q, !.ret = m,
                              !.vals = {Lookup(doc, field).n :
                                  doc \in {x \in m : Lookup(x, field).hit}}]
    /\ UNCHANGED <<c, queryMask, nops>>
    /\ UNCHANGED <<configVars, stageVars>>

\* reach(doc, key) on a record of the collection
Reach(doc, parts) ==
    /\ last' = [NoCall EXCEPT !.op = "reach", !.key = Id(doc),
                              !.path = parts, !.got = reach(D(doc), parts)]
    /\ UNCHANGED <<c, queryMask, nops>>
    /\ UNCHANGED <<configVars, stageVars>>

\* doc[key] on a ReachableDoc of the collection
DocGetItem(doc, parts) ==
    /\ last' = [NoCall EXCEPT !.op = "doc_getitem", !.key = Id(doc),
                              !.path = parts,
                              !.got = ReachableDoc_getitem(doc, parts)]
    /\ UNCHANGED <<c, queryMask, nops>>
    /\ UNCHANGED <<configVars, stageVars>>

\* ------------------------------------------------------- ImageLog: updates
\* set(imageKey, key, value, ext)
Set(imageKey, key, value, ext) ==
    /\ nops < MaxOps
    /\ c' \in ImageLog_set(c, imageKey, key, value, ext)
    /\ last' = [NoCall EXCEPT !.op = "set", !.key = imageKey, !.path = key,
                              !.val = value, !.ext = ext,
                              !.query = <<"_id">> :> Eq(imageKey)]
    /\ nops' = nops + 1
    /\ UNCHANGED queryMask
    /\ UNCHANGED <<configVars, stageVars>>

\* set_frames(key, data): set(imageKey, key, datum, ext=ext) for every
\* ((imageKey, ext), datum) of data, in order.
RECURSIVE set_frames(_, _, _)
set_frames(coll, key, data) ==
    IF data = <<>> THEN {coll}
    ELSE UNION { set_frames(c1, key, Tail(data)) :
                   c1 \in ImageLog_set(coll, data[1][1][1], key, data[1][2],
                                       data[1][1][2]) }

SetFrames(key, data) ==
    /\ nops < MaxOps
    /\ c' \in set_frames(c, key, data)
    /\ last' = [NoCall EXCEPT !.op = "set_frames", !.path = key,
                              !.keys = [i \in DOMAIN data |-> data[i][1][1]]]
    /\ nops' = nops + 1
    /\ UNCHANGED queryMask
    /\ UNCHANGED <<configVars, stageVars>>

\* rename_field(dataKeyOld, dataKeyNew, selector, multi)
RenameField(old, new, arg, multi) ==
    LET q == exists_selector(Selector(arg), <<old>>) IN
    /\ nops < MaxOps
    /\ c' \in MongoUpdate(c, q, [doc \in c |-> MongoRename(doc, old, new)],
                          multi)
    /\ last' = [NoCall EXCEPT !.op = "rename_field", !.path = <<old>>,
                              !.new = new, !.sel = Selector(arg),
                              !.omitted = arg.none, !.flag = multi,
                              !.query = q]
    /\ nops' = nops + 1
    /\ UNCHANGED queryMask
    /\ UNCHANGED <<configVars, stageVars>>

\* delete_field(dataKey, selector, multi)
DeleteField(dataKey, arg, multi) ==
    LET q == insert_query_mask(Selector(arg)) IN
    /\ nops < MaxOps
    /\ c' \in MongoUpdate(c, q, [doc \in c |-> MongoUnset(doc, dataKey)], multi)
    /\ last' = [NoCall EXCEPT !.op = "delete_field", !.path = dataKey,
                              !.sel = Selector(arg), !.omitted = arg.none,
                              !.flag = multi, !.query = q]
    /\ nops' = nops + 1
    /\ UNCHANGED queryMask
    /\ UNCHANGED <<configVars, stageVars>>

\* delete_files(pathKey, selector): every document found with the field is
\* updated by its _id: update({"_id": imageKey}, {"$unset": {pathKey: 1}}).
RECURSIVE unset_each(_, _, _)
unset_each(coll, ids, pathKey) ==
    IF ids = {} THEN coll
    ELSE LET k == CHOOSE x \in ids : TRUE
             c1 == CHOOSE x \in MongoUpdate(coll, <<"_id">> :> Eq(k),
                       [doc \in coll |-> MongoUnset(doc, pathKey)], FALSE) : TRUE
         IN unset_each(c1, ids \ {k}, pathKey)

DeleteFiles(pathKey, arg) ==
    LET q == exists_selector(Selector(arg), pathKey)
        m == MongoFind(c, q) IN
    /\ nops < MaxOps
    /\ c' = unset_each(c, {Id(doc) : doc \in m}, pathKey)
    /\ last' = [NoCall EXCEPT !.op = "delete_files", !.path = pathKey,
                              !.sel = Selector(arg), !.omitted = arg.none,
                              !.query = q, !.ret = m]
    /\ nops' = nops + 1
    /\ UNCHANGED queryMask
    /\ UNCHANGED <<configVars, stageVars>>

\* The data argument of set_frames: two frames, extension "0".
FramesArgs ==
    { << <<(<<k1, "0">>), "A">>, <<(<<k2, "0">>), "B">> >> :
        k1 \in Keys, k2 \in Keys }

\* --------------------------------------------------------------- ConfigSet
\* self.configs is None or a dict.
ConfigNone == [isNone |-> TRUE, d |-> EmptyFn]
ConfigDict(d) == [isNone |-> FALSE, d |-> d]

ConfigKeys == {"c", "WEIGHT_TYPE", "WEIGHT_IMAGE"}
ConfigVals == {"NONE", "w.fits"}
\* The default null of set_null_config: the two-character string "".
NullString == "\"\""

\* Astromatic.add_to_configs
add_to_configs(cfg, key, value) ==
    IF cfg.isNone THEN ConfigDict(key :> value)
    ELSE ConfigDict((key :> value) @@ cfg.d)

\* A set_null_config that leaves the key in place when null is None.
set_null_config_keep(cfg, key, null) ==
    IF null = None THEN cfg
    ELSE IF cfg.isNone THEN ConfigDict(key :> null)
    ELSE ConfigDict((key :> null) @@ cfg.d)

\* Astromatic.set_null_config; null = None deletes the key.
set_null_config(cfg, key, null) ==
    IF cfg.isNone
    THEN IF null # None THEN ConfigDict(key :> null) ELSE ConfigDict(EmptyFn)
    ELSE IF null # None THEN ConfigDict((key :> null) @@ cfg.d)
    ELSE IF key \in DOMAIN cfg.d THEN ConfigDict(FnRemove(cfg.d, key))
    ELSE cfg

\* The orders in which a dict can be iterated.
RECURSIVE Orders(_)
Orders(ks) ==
    IF ks = {} THEN {<<>>}
    ELSE UNION {{<<k>> \o o : o \in Orders(ks \ {k})} : k \in ks}

\* A returned string is a sequence of " -KEY VALUE" fragments, <<KEY, VALUE>>;
\* Returned None is not a string.
ReturnNone == [isNone |-> TRUE, s |-> <<>>]
ReturnStr(s) == [isNone |-> FALSE, s |-> s]

\* Astromatic.make_config_command: the values it can return.
make_config_command(cfg) ==
    IF ~cfg.isNone
    THEN {ReturnStr([i \in DOMAIN o |-> <<o[i], cfg.d[o[i]]>>]) :
            o \in Orders(DOMAIN cfg.d)}
    ELSE {ReturnNone}

NoConfigCall == [op |-> "none", key |-> "", val |-> "", ret |-> ReturnNone]

AddToConfigs(key, value) ==
    /\ configs' = add_to_configs(configs, key, value)
    /\ written' = (key :> value) @@ written
    /\ cfgLast' = [NoConfigCall EXCEPT !.op = "add_to_configs", !.key = key,
                                       !.val = value]
    /\ UNCHANGED <<storeVars, stageVars>>

SetNullConfig(key, null) ==
    /\ configs' = set_null_config(configs, key, null)
    /\ written' = IF null # None THEN (key :> null) @@ written
                  ELSE FnRemove(written, key)
    /\ cfgLast' = [NoConfigCall EXCEPT !.op = "set_null_config", !.key = key,
                                       !.val = null]
    /\ UNCHANGED <<storeVars, stageVars>>

MakeConfigCommand ==
    /\ \E r \in make_config_command(configs) :
          cfgLast' = [NoConfigCall EXCEPT !.op = "make_config_command",
                                          !.ret = r]
    /\ UNCHANGED <<configs, written>>
    /\ UNCHANGED <<storeVars, stageVars>>

\* ------------------------------------------------- files and command lines
\* os.path.join(dir, name)
JoinPath(dir, name) == dir \o "/" \o name

\* The files of a stage on disk: disk is the set of paths that exist, dumps
\* counts the "<tool> -d > path" invocations per path and writers names the
\* stage instances that have written each path.
NoFiles == [disk |-> {}, dumps |-> EmptyFn, writers |-> EmptyFn]
Count(f, x) == IF x \in DOMAIN f THEN f[x] ELSE 0
WritersOf(w, path) == IF path \in DOMAIN w THEN w[path] ELSE {}
FileWritten(fs, path, by) ==
    [fs EXCEPT !.disk = @ \cup {path},
               !.writers = (path :> (WritersOf(@, path) \cup {by})) @@ @]

\* Astromatic.write_defaults_file: "<tool> -d > workDir/defaults.txt".
write_defaults_file(self, fs, by) ==
    LET path == JoinPath(self.workDir, "defaults.txt")
        written1 == FileWritten(fs, path, by) IN
    [self |-> [self EXCEPT !.defaultsPath = path],
     fs |-> [written1 EXCEPT
                !.dumps = (path :> (Count(@, path) + 1)) @@ @]]

\* Astromatic.add_default_param_to_configs
add_default_param_to_configs(self, fs, by) ==
    LET r == IF self.defaultsPath = None \/ self.defaultsPath \notin fs.disk
             THEN write_defaults_file(self, fs, by)
             ELSE [self |-> self, fs |-> fs] IN
    [r EXCEPT !.self.configs =
                 add_to_configs(@, "c", r.self.defaultsPath)]

\* Astromatic.write_input_file_list: workDir/<name>.txt
write_input_file_list(self, fs, name, by) ==
    LET listPath == JoinPath(self.workDir, name \o ".txt") IN
    [path |-> listPath, fs |-> FileWritten(fs, listPath, by)]

\* A command line: the program, its input argument and the configuration
\* fragments; NoCommand before any make_command.
NoCommand == [prog |-> "none", input |-> "", opts |-> <<>>]
Joined(prog, input, configCmd) ==
    [prog |-> prog, input |-> input,
     opts |-> IF configCmd.isNone THEN <<>> ELSE configCmd.s]

\* Swarp.make_command: the instance it leaves, the files, and the commands
\* it can return (one per iteration order of the configs).
Swarp_make_command(self, fs, by) ==
    LET d == add_default_param_to_configs(self, fs, by)
        l == write_input_file_list(d.self, d.fs,
                                   "inputlist" \o self.uniqueExt, by)
        w == write_input_file_list(d.self, l.fs,
                                   "weightlist" \o self.uniqueExt, by)
        cfg1 == IF self.useWeights
                THEN add_to_configs(d.self.configs, "WEIGHT_IMAGE",
                                    "@" \o w.path)
                ELSE set_null_config(
                         add_to_configs(d.self.configs, "WEIGHT_TYPE", "NONE"),
                         "WEIGHT_IMAGE", None)
        cfg2 == add_to_configs(
                    add_to_configs(cfg1, "IMAGEOUT_NAME", self.mosaicPath),
                    "WEIGHTOUT_NAME", self.mosaicWeightPath) IN
    [self |-> [d.self EXCEPT !.configs = cfg2],
     fs |-> IF self.useWeights THEN w.fs ELSE l.fs,
     commands |-> {Joined("swarp", "@" \o l.path, r) :
                      r \in make_config_command(cfg2)}]

\* Swarp.__init__: the fields of the instance other than its configs.
SwarpInstance(useWeights, defaultsPath, uniqueExt) ==
    [useWeights |-> useWeights, defaultsPath |-> defaultsPath,
     uniqueExt |-> uniqueExt, workDir |-> "mosaic",
     mosaicPath |-> JoinPath("mosaic", "m.fits"),
     mosaicWeightPath |-> JoinPath("mosaic", "m_weight.fits")]
NoSwarp == SwarpInstance(FALSE, None, "")

WithConfigs(self, cfg) == [configs |-> cfg] @@ self
Fs == [disk |-> disk, dumps |-> dumps, writers |-> writers]

\* swarp.make_command() on the instance, by the caller.
SwarpMakeCommand ==
    LET r == Swarp_make_command(WithConfigs(swarp, configs), Fs, "swarp") IN
    /\ configs' = r.self.configs
    /\ written' = r.self.configs.d
    /\ cfgLast' = [NoConfigCall EXCEPT !.op = "make_command"]
    /\ swarp' = [swarp EXCEPT !.defaultsPath = r.self.defaultsPath]
    /\ disk' = r.fs.disk
    /\ dumps' = r.fs.dumps
    /\ writers' = r.fs.writers
    /\ command' \in r.commands
    /\ UNCHANGED <<storeVars, batchVars, moreVars>>

\* ------------------------------------------------------- input list files
\* An entry of a list of input paths: a path, or (Swarp, for the images a
\* resampling step broke apart) itself a list of paths.
Path(p) == [list |-> FALSE, p |-> p, ps |-> <<>>]
PathList(ps) == [list |-> TRUE, p |-> "", ps |-> ps]

\* The text of a file is the sequence of the pieces written to it: paths
\* and newlines.
Newline == "\n"

\* sep.join(strs)
RECURSIVE join(_, _)
join(sep, strs) ==
    IF strs = <<>> THEN <<>>
    ELSE IF Len(strs) = 1 THEN <<strs[1]>>
    ELSE <<strs[1], sep>> \o join(sep, Tail(strs))

\* Astromatic.write_input_file_list: listString
listString(inputFITSPaths) == join(Newline, inputFITSPaths) \o <<Newline>>

\* A list file that is opened for appending and not removed first.
list_file_appended(old, listPath, text) ==
    (listPath :> ((IF listPath \in DOMAIN old THEN old[listPath] ELSE <<>>)
                  \o text)) @@ old

\* Astromatic.write_input_file_list: os.remove(listPath) if it exists, then
\* open(listPath, 'w') and f.write(listString).
list_file_written(old, listPath, text) ==
    LET removed == IF listPath \in DOMAIN old THEN FnRemove(old, listPath)
                   ELSE old IN
    (listPath :> text) @@ removed

\* Swarp.write_input_file_list: newPathList
RECURSIVE newPathList(_)
newPathList(paths) ==
    IF paths = <<>> THEN <<>>
    ELSE (IF paths[1].list THEN paths[1].ps ELSE <<paths[1].p>>)
         \o newPathList(Tail(paths))

\* The lines of a text, as a reader of the file gets them: a line ends at a
\* newline, and what follows the last newline is a line if it is not empty.
RECURSIVE LinesFrom(_, _)
LinesFrom(text, line) ==
    IF text = <<>> THEN (IF line = "" THEN <<>> ELSE <<line>>)
    ELSE IF text[1] = Newline THEN <<line>> \o LinesFrom(Tail(text), "")
    ELSE LinesFrom(Tail(text), line \o text[1])
Lines(text) == LinesFrom(text, "")

\* self.checkList and self.checkPaths: None, or a list.
NoCheckList == [isNone |-> TRUE, l |-> <<>>]
CheckListOf(l) == [isNone |-> FALSE, l |-> l]

\* The concatenation of the pieces of a text.
RECURSIVE Concat(_)
Concat(text) == IF text = <<>> THEN "" ELSE text[1] \o Concat(Tail(text))

\* ------------------------------------------------------------ batch runs
\* The record fields a batch reads and writes.
PathKey == <<"path">>
CatalogKey == <<"cat">>
PsfKey == <<"psf">>
XmlKey == "xml"
CatPostfix == "se_cat"

\* A catalog name that leaves the image key out.
catalogName_shared(imageKey, catPostfix) == catPostfix
\* _workSE: catalogName = "_".join((str(imageKey), catPostfix))
catalogName(imageKey, catPostfix) == imageKey \o "_" \o catPostfix
\* SourceExtractor.__init__: os.path.join(workDir, catalogName + ".fits")
catalog_path(workDir, name) == JoinPath(workDir, name \o ".fits")

\* os.path.splitext(os.path.basename(path))[0] of the paths a record holds.
Stems == Keys \cup {catalogName(k, CatPostfix) : k \in Keys}
Dirs == {"raw", "se", "psfex"}
Stem(path) ==
    CHOOSE b \in Stems :
        \E d \in Dirs, e \in {".fits", ".psf"} : path = JoinPath(d, b \o e)
\* PSFex.save_psf_paths: workDir/<stem of the catalog path>.psf
psf_path(workDir, catPath) == JoinPath(workDir, Stem(catPath) \o ".psf")
\* PSFex.make_command: workDir/<groupName>.xml
xml_path(workDir, groupName) == JoinPath(workDir, groupName \o ".xml")

\* The check-image types SourceExtractor.set_check_images and
\* PSFex.set_check_images know; any other type is a KeyError.
CheckExt ==
    {"SEGMENTATION", "OBJECTS", "MINIBACK_RMS", "BACKGROUND",
     "MINIBACKGROUND", "BACKGROUND_RMS", "-OBJECTS"}
CheckPath ==
    {"CHI", "PROTOTYPES", "SAMPLES", "RESIDUALS", "SNAPSHOTS", "MOFFAT",
     "-MOFFAT", "-SYMMETRICAL", "BASIS"}

\* A stage instance as its constructor leaves it.
Stage(cfg, workDir, defaultsPath) ==
    [configs |-> cfg, workDir |-> workDir, defaultsPath |-> defaultsPath,
     checkList |-> NoCheckList, checkPaths |-> NoCheckList]

\* SourceExtractor.make_command with no weight and PSF paths: the instance
\* and the files it leaves.  The options of the command are the configs it
\* leaves.
SourceExtractor_make_command(self, catalogPath, fs, by) ==
    LET d == add_default_param_to_configs(self, fs, by)
        cfg1 == add_to_configs(d.self.configs, "CATALOG_NAME", catalogPath)
        cfg2 == IF Len(self.checkList.l) > 0
                THEN add_to_configs(
                         add_to_configs(cfg1, "CHECKIMAGE_TYPE",
                             Concat(join(",", self.checkList.l))),
                         "CHECKIMAGE_NAME",
                         Concat(join(",", self.checkPaths.l)))
                ELSE add_to_configs(cfg1, "CHECKIMAGE_TYPE", "NONE") IN
    [self |-> [d.self EXCEPT !.configs = cfg2], fs |-> d.fs]

\* PSFex.make_command for at most ten catalogs and no check plots: the
\* instance and the files it leaves.  self.configs[...] = ... on configs
\* that are None is a TypeError, and so is ",".join(None).
PSFex_make_command(self, groupName, xmlKey, fs, by) ==
    IF self.configs.isNone THEN [err |-> "TypeError", self |-> self, fs |-> fs]
    ELSE
    LET cfg1 == IF xmlKey = None
                THEN add_to_configs(self.configs, "WRITE_XML", "N")
                ELSE add_to_configs(
                         add_to_configs(self.configs, "WRITE_XML", "Y"),
                         "XML_NAME", xml_path(self.workDir, groupName))
        d == add_default_param_to_configs([self EXCEPT !.configs = cfg1],
                                          fs, by)
        cfg2 == IF self.checkList.isNone THEN d.self.configs
                ELSE add_to_configs(
                         add_to_configs(d.self.configs, "CHECKIMAGE_TYPE",
                             Concat(join(",", self.checkList.l))),
                         "CHECKIMAGE_NAME",
                         Concat(join(",", self.checkPaths.l))) IN
    IF ~self.checkList.isNone /\ self.checkPaths.isNone
    THEN [err |-> "TypeError", self |-> d.self, fs |-> d.fs]
    ELSE [err |-> "none", self |-> [d.self EXCEPT !.configs = cfg2],
          fs |-> d.fs]

\* BatchSourceExtractor.__init__ and BatchPSFex.__init__: the coordinator.
\* units is the sequence of its units, each a sequence of image keys
\* (imageKeys, one key per unit; the groups of groupedImageKeys).
SEBatch(units, debug, nthreads, cfg, checks) ==
    [kind |-> "se", units |-> units, debug |-> debug, nthreads |-> nthreads,
     configs |-> cfg, checks |-> checks, xmlKey |-> None, workDir |-> "se",
     defaultsPath |-> "se/config.sex", runs |-> 0]
PSFexBatch(units, debug, nthreads, cfg, checks, xmlKey) ==
    [kind |-> "psfex", units |-> units, debug |-> debug,
     nthreads |-> nthreads, configs |-> cfg, checks |-> checks,
     xmlKey |-> xmlKey, workDir |-> "psfex", defaultsPath |-> None,
     runs |-> 0]
NoBatch == SEBatch(<<>>, TRUE, 1, ConfigNone, <<>>)

\* A unit of a run: st is where its worker function is, proc the state of
\* its tool process, keys the image keys its stage works on, cycles the
\* number of times the worker function was entered for it in this run.
NewUnit(keys) ==
    [st |-> "waiting", proc |-> "none", keys |-> keys, cats |-> <<>>,
     err |-> "none", cycles |-> 0, configs |-> ConfigNone]
UnitIds == DOMAIN batch.units

\* BatchSourceExtractor.run: self.imageLog[imageKey][self.pathKey].  A key
\* the masked find_one does not find gives None, and None[...] a TypeError.
GatherSE(key) ==
    LET docs == MongoFind(c, getitem_selector(key)) IN
    IF docs = {} THEN "TypeError"
    ELSE IF \E doc \in docs :
               ReachableDoc_getitem(doc, PathKey).kind # "value"
    THEN "KeyError"
    ELSE "none"

\* PSFex.from_db in the worker, on its own ImageLog (queryMask = {}):
\* find({"_id": {"$in": imageKeys}}, fields=[catalogPathKey]); the keys and
\* catalog paths of the documents found, in the order of the _id index.
GatherPSFex(keys) ==
    LET docs == MongoFind(c, <<"_id">> :> In({keys[i] : i \in DOMAIN keys}))
        found == SortKeys({Id(doc) : doc \in docs}) IN
    IF \E doc \in docs : ReachableDoc_getitem(doc, CatalogKey).kind # "value"
    THEN [err |-> "KeyError", keys |-> <<>>, cats |-> <<>>]
    ELSE IF found = <<>>
    THEN [err |-> "IndexError", keys |-> <<>>, cats |-> <<>>]
    ELSE [err |-> "none", keys |-> found,
          cats |-> [i \in DOMAIN found |->
                      LET doc == CHOOSE d \in docs : Id(d) = found[i] IN
                      ReachableDoc_getitem(doc, CatalogKey).n.v]]

\* set_check_images: checkExt[checkType] / checkPath[c] of an unknown type.
CheckError(known, checks) ==
    IF \E i \in DOMAIN checks : checks[i] \notin known
    THEN "KeyError" ELSE "none"

\* Astromatic.run after subprocess.Popen: p.wait() returns once the process
\* has exited.
wait_skipped(proc) == proc \in {"running", "ok", "fail"}
wait_returned(proc) == proc \in {"ok", "fail"}

\* Astromatic.run: the exit status p.wait() returns is not looked at.
Astromatic_run_checked(status) ==
    IF status = "fail" THEN "CalledProcessError" ELSE "returned"
Astromatic_run(status) == "returned"

\* A sequence of imageLog.set(imageKey, key, value) calls.
RECURSIVE set_each(_, _)
set_each(coll, ws) ==
    IF ws = <<>> THEN {coll}
    ELSE UNION { set_each(c1, Tail(ws)) :
                   c1 \in ImageLog_set(coll, ws[1][1], ws[1][2], ws[1][3],
                                       None) }

RECURSIVE Flatten(_)
Flatten(seqs) ==
    IF seqs = <<>> THEN <<>> ELSE Head(seqs) \o Flatten(Tail(seqs))

\* BatchSourceExtractor.run, the loop over results:
\* imageLog.set(imageKey, catalogKey, se.catalog_path()).
SEWrites(unitKeys) ==
    [i \in DOMAIN unitKeys |->
        <<unitKeys[i], CatalogKey,
          catalog_path(batch.workDir, catalogName(unitKeys[i], CatPostfix))>>]

\* PSFex.save_psf_paths and save_xml_paths: for imageKey, catPath in
\* zip(self.imageKeys, self.catalogPaths); groupName is self.imageKeys[0].
PSFexWrites(u) ==
    [i \in DOMAIN u.keys |->
        <<u.keys[i], PsfKey, psf_path(batch.workDir, u.cats[i])>>]
    \o IF batch.xmlKey = None THEN <<>>
       ELSE [i \in DOMAIN u.keys |->
               <<u.keys[i], <<batch.xmlKey>>,
                 xml_path(batch.workDir, u.keys[1])>>]

\* ---------------------------------------------------- batch runs: actions
Slots == IF batch.debug THEN 1 ELSE batch.nthreads
Active(i) == up[i].st \in {"configured", "launched"}
Finished(i) == up[i].st \in {"returned", "saved", "failed"}

\* BatchSourceExtractor.run, up to the pool: the loop that gathers the
\* arguments of every unit raises out of run when one gather fails.
RunSE ==
    /\ batch.kind = "se"
    /\ phase \in {"idle", "returned"}
    /\ batch.runs < MaxRuns
    /\ batch' = [batch EXCEPT !.runs = @ + 1]
    /\ up' = [i \in UnitIds |-> NewUnit(batch.units[i])]
    /\ phase' = IF \E i \in UnitIds : GatherSE(batch.units[i][1]) # "none"
                THEN "raised" ELSE "pool"
    /\ UNCHANGED <<storeVars, configVars, swarp, moreVars, diskVars, command>>

\* BatchPSFex.run, up to the pool: one argument tuple per group.
RunPSFex ==
    /\ batch.kind = "psfex"
    /\ phase \in {"idle", "returned"}
    /\ batch.runs < MaxRuns
    /\ batch' = [batch EXCEPT !.runs = @ + 1]
    /\ up' = [i \in UnitIds |-> NewUnit(<<>>)]
    /\ phase' = "pool"
    /\ UNCHANGED <<storeVars, configVars, swarp, moreVars, diskVars, command>>

\* An exception in the worker function of unit i.  map() in the caller's
\* process (debug) raises out of run at once; the pool hands it to the
\* coordinator, which raises it when it gets it.
Failed(i, err) ==
    /\ up' = [up EXCEPT ![i].st = "failed", ![i].err = err,
                        ![i].cycles = IF up[i].st = "waiting" THEN @ + 1
                                      ELSE @]
    /\ phase' = IF batch.debug THEN "raised" ELSE phase

\* A worker takes unit i: the stage is built (for PSFex from the store) and
\* run() makes its command.
Configure(i) ==
    /\ phase = "pool"
    /\ up[i].st = "waiting"
    /\ \A j \in UnitIds : j < i =>
          IF batch.debug THEN Finished(j) ELSE up[j].st # "waiting"
    /\ Cardinality({j \in UnitIds : Active(j)}) < Slots
    /\ LET g == IF batch.kind = "se"
                THEN [err |-> "none", keys |-> batch.units[i], cats |-> <<>>]
                ELSE GatherPSFex(batch.units[i])
           ce == CheckError(IF batch.kind = "se" THEN CheckExt ELSE CheckPath,
                            batch.checks)
           self == [Stage(batch.configs, batch.workDir, batch.defaultsPath)
                      EXCEPT !.checkList =
                         IF batch.kind = "se" THEN CheckListOf(<<>>) ELSE @]
           m == IF batch.kind = "se"
                THEN [err |-> "none"] @@
                     SourceExtractor_make_command(self,
                         catalog_path(batch.workDir,
                             catalogName(batch.units[i][1], CatPostfix)),
                         Fs, i)
                ELSE PSFex_make_command(self, g.keys[1], batch.xmlKey, Fs, i)
       IN
       IF g.err # "none"
       THEN Failed(i, g.err) /\ UNCHANGED <<batch, diskVars>>
       ELSE IF ce # "none"
       THEN Failed(i, ce) /\ UNCHANGED <<batch, diskVars>>
       ELSE IF m.err # "none"
       THEN Failed(i, m.err) /\ UNCHANGED <<batch, diskVars>>
       ELSE /\ up' = [up EXCEPT ![i].st = "configured", ![i].keys = g.keys,
                                ![i].cats = g.cats, ![i].cycles = @ + 1,
                                ![i].configs = m.self.configs]
            /\ disk' = m.fs.disk
            /\ dumps' = m.fs.dumps
            /\ writers' = m.fs.writers
            \* In the caller's process the units share the configs dict.
            /\ batch' = IF batch.debug /\ ~batch.configs.isNone
                        THEN [batch EXCEPT !.configs = m.self.configs]
                        ELSE batch
            /\ UNCHANGED phase
    /\ UNCHANGED <<storeVars, configVars, swarp, moreVars, command>>

\* run(): subprocess.Popen(command, shell=True)
Launch(i) ==
    /\ phase = "pool"
    /\ up[i].st = "configured"
    /\ up' = [up EXCEPT ![i].st = "launched", ![i].proc = "running"]
    /\ UNCHANGED <<storeVars, configVars, swarp, moreVars, diskVars, command, batch,
                   phase>>

\* The files the tool of unit u is told to write: CATALOG_NAME of the
\* source extractor, the PSF models and the XML file of psfex; they are the
\* paths the run puts in the store.
ToolOutputs(u) ==
    LET ws == IF batch.kind = "se" THEN SEWrites(u.keys) ELSE PSFexWrites(u)
    IN {ws[n][3] : n \in DOMAIN ws}

\* The tool process of unit i exits: with success, having written its
\* outputs, or with a non-zero status, having written nothing.
Exit(i, status) ==
    /\ phase = "pool"
    /\ up[i].proc = "running"
    /\ up' = [up EXCEPT ![i].proc = status]
    /\ disk' = IF status = "ok" THEN disk \cup ToolOutputs(up[i]) ELSE disk
    /\ UNCHANGED <<storeVars, configVars, swarp, moreVars, dumps, writers,
                   command, batch, phase>>

\* _workSE after se.run(): return imageKey, se.
ReturnSE(i) ==
    /\ phase = "pool"
    /\ batch.kind = "se"
    /\ up[i].st = "launched"
    /\ wait_returned(up[i].proc)
    /\ IF Astromatic_run(up[i].proc) = "returned"
       THEN up' = [up EXCEPT ![i].st = "returned"] /\ UNCHANGED phase
       ELSE Failed(i, Astromatic_run(up[i].proc))
    /\ UNCHANGED <<storeVars, configVars, swarp, moreVars, diskVars, command, batch>>

\* _run_batch_psfex after psfex.run(): save_psf_paths, save_xml_paths.
SavePSFex(i) ==
    /\ phase = "pool"
    /\ batch.kind = "psfex"
    /\ up[i].st = "launched"
    /\ wait_returned(up[i].proc)
    /\ IF Astromatic_run(up[i].proc) = "returned"
       THEN /\ c' \in set_each(c, PSFexWrites(up[i]))
            /\ up' = [up EXCEPT ![i].st = "saved"]
            /\ UNCHANGED phase
       ELSE Failed(i, Astromatic_run(up[i].proc)) /\ UNCHANGED c
    /\ UNCHANGED <<queryMask, last, nops, configVars, swarp, moreVars, diskVars,
                   command, batch>>

\* BatchSourceExtractor.run after pool.map / map has returned the results of
\* every unit: the paths are set in the store and run returns.
PersistSE ==
    /\ phase = "pool"
    /\ batch.kind = "se"
    /\ \A i \in UnitIds : up[i].st = "returned"
    /\ c' \in set_each(c, SEWrites(Flatten(batch.units)))
    /\ up' = [i \in UnitIds |-> [up[i] EXCEPT !.st = "saved"]]
    /\ phase' = "returned"
    /\ UNCHANGED <<queryMask, last, nops, configVars, swarp, moreVars, diskVars,
                   command, batch>>

\* BatchPSFex.run returns when pool.map / map has.
ReturnPSFex ==
    /\ phase = "pool"
    /\ batch.kind = "psfex"
    /\ \A i \in UnitIds : up[i].st = "saved"
    /\ phase' = "returned"
    /\ UNCHANGED <<storeVars, configVars, swarp, moreVars, diskVars, command, batch,
                   up>>

\* pool.map raises in the coordinator the exception of a failed unit; the
\* pool goes with the call and the units still in it are not carried on.
RaiseFromPool ==
    /\ phase = "pool"
    /\ ~batch.debug
    /\ \E i \in UnitIds : up[i].st = "failed"
    /\ phase' = "raised"
    /\ UNCHANGED <<storeVars, configVars, swarp, moreVars, diskVars, command, batch,
                   up>>

\* --------------------------------------------------------- stage instances
\* SourceExtractor.set_check_images: checkExt; PSFex.set_check_images:
\* checkPath.
checkExt ==
    ("SEGMENTATION" :> "seg") @@ ("OBJECTS" :> "obj")
    @@ ("MINIBACK_RMS" :> "minibrms") @@ ("BACKGROUND" :> "bkg")
    @@ ("MINIBACKGROUND" :> "minibkg") @@ ("BACKGROUND_RMS" :> "backrms")
    @@ ("-OBJECTS" :> "objsub")
checkPath ==
    ("CHI" :> "chi") @@ ("PROTOTYPES" :> "proto") @@ ("SAMPLES" :> "samp")
    @@ ("RESIDUALS" :> "resi") @@ ("SNAPSHOTS" :> "snap")
    @@ ("MOFFAT" :> "moffat") @@ ("-MOFFAT" :> "-moffat")
    @@ ("-SYMMETRICAL" :> "-symm") @@ ("BASIS" :> "basis")

\* The longest prefix of a check list whose types the table knows: the
\* paths appended before checkExt[checkType] raises KeyError.
RECURSIVE KnownPrefix(_, _)
KnownPrefix(table, l) ==
    IF l = <<>> \/ l[1] \notin DOMAIN table THEN <<>>
    ELSE <<l[1]>> \o KnownPrefix(table, Tail(l))

\* SourceExtractor.set_check_images(checkList, checkDir): self.checkList is
\* assigned first, then one path is appended per type.
SourceExtractor_set_check_images(self, checkList) ==
    LET known == KnownPrefix(checkExt, checkList)
        baseName == Stem(self.inputPath) IN
    [err |-> IF Len(known) < Len(checkList) THEN "KeyError" ELSE "none",
     self |-> [self EXCEPT
        !.checkList = CheckListOf(checkList),
        !.checkPaths = CheckListOf([i \in DOMAIN known |->
            JoinPath(self.workDir,
                     baseName \o "_" \o checkExt[known[i]] \o ".fits")])]]

\* PSFex.set_check_images(checkList, prefix, checkDir): the list
\* comprehension assigns self.checkPaths only when every type is known.
PSFex_set_check_images(self, checkList, prefix, checkDir) ==
    LET known == KnownPrefix(checkPath, checkList) IN
    IF Len(known) < Len(checkList)
    THEN [err |-> "KeyError",
          self |-> [self EXCEPT !.checkList = CheckListOf(checkList)]]
    ELSE [err |-> "none",
          self |-> [self EXCEPT
             !.checkList = CheckListOf(checkList),
             !.checkPaths = CheckListOf([i \in DOMAIN checkList |->
                 JoinPath(checkDir,
                     prefix \o "_" \o checkPath[checkList[i]] \o ".fits")])]]

\* list.index(x): the first position of x, or ValueError.
ListIndex(l, x) ==
    IF \E i \in DOMAIN l : l[i] = x
    THEN CHOOSE i \in DOMAIN l : l[i] = x /\ \A j \in 1..(i - 1) : l[j] # x
    ELSE 0

\* SourceExtractor.check_path and PSFex.check_path:
\* i = self.checkList.index(checkType); self.checkPaths[i] if i >= 0.
check_path(self, checkType) ==
    IF self.checkList.isNone THEN [kind |-> "AttributeError", v |-> ""]
    ELSE LET i == ListIndex(self.checkList.l, checkType) IN
         IF i = 0 THEN [kind |-> "ValueError", v |-> ""]
         ELSE IF self.checkPaths.isNone
         THEN [kind |-> "TypeError", v |-> ""]
         ELSE IF i > Len(self.checkPaths.l)
         THEN [kind |-> "IndexError", v |-> ""]
         ELSE [kind |-> "value", v |-> self.checkPaths.l[i]]

\* The record fields Swarp.from_db and Scamp.from_db read.
WeightKey == <<"weight">>

\* What a constructor or factory was called with.
Asked(factory, cfg, uniqueExt, useFileRefs) ==
    [factory |-> factory, configs |-> cfg, uniqueExt |-> uniqueExt,
     useFileRefs |-> useFileRefs]

\* What the last call on the instance returned or raised.
NoReturn == [op |-> "none", arg |-> "", kind |-> "none", v |-> ""]

\* A stage instance: kind is its class; st, pc, launches and proc follow its
\* calls (pc is where a run() call is: "idle" outside of it, "made" after
\* its make_command, "waiting" in p.wait()); listed is the list its
\* write_input_file_list was last called with; the other fields are the
\* attributes its constructor sets, the ones of the other classes empty.
StageFields ==
    [kind |-> "none", st |-> "constructed", pc |-> "idle", launches |-> 0,
     proc |-> "none", ret |-> NoReturn,
     asked |-> Asked("direct", ConfigNone, "", FALSE),
     useWeights |-> FALSE, uniqueExt |-> "", mosaicPath |-> "",
     mosaicWeightPath |-> "", imagePaths |-> <<>>, swarpInputs |-> EmptyFn,
     catalogPaths |-> <<>>, imageKeys |-> <<>>, useFileRefs |-> FALSE,
     inputPath |-> "", catalogPath |-> "", xmlKey |-> None, groupName |-> "",
     listed |-> <<>>]
NoStage == Stage(ConfigNone, ".", None) @@ StageFields

\* Swarp.__init__: swarpInputs[key] = {...} for the names of the images in
\* turn; a later image of the same name replaces the earlier one.
swarpInputs(imagePaths, weightPaths) ==
    [key \in {Stem(imagePaths[i]) : i \in DOMAIN imagePaths} |->
        LET i == CHOOSE i \in DOMAIN imagePaths :
                    /\ Stem(imagePaths[i]) = key
                    /\ \A j \in DOMAIN imagePaths :
                          Stem(imagePaths[j]) = key => j <= i IN
        [path |-> imagePaths[i],
         weight |-> IF weightPaths.isNone THEN None ELSE weightPaths.l[i]]]

\* Swarp.__init__(imagePaths, mosaicName, weightPaths=, defaultsPath=,
\* configs=, uniqueExt=)
Swarp_init(imagePaths, weightPaths, defaultsPath, cfg, uniqueExt) ==
    [kind |-> "swarp", imagePaths |-> imagePaths,
     swarpInputs |-> swarpInputs(imagePaths, weightPaths)]
    @@ SwarpInstance(~weightPaths.isNone, defaultsPath, uniqueExt)
    @@ Stage(cfg, "mosaic", defaultsPath) @@ StageFields

\* Swarp.from_db(imageLog, imageKeys, pathKey, mosaicName, weightPathKey=,
\* defaultsPath=, configs=, uniqueExt=): the paths are read from the records
\* find_dict returns and the class is called with uniqueExt="".
Swarp_from_db(coll, imageKeys, weightPathKey, defaultsPath, cfg, uniqueExt) ==
    LET recs == DictOf(MongoFind(coll,
                    find_selector(EmptyFn,
                        ImagesOf({imageKeys[i] : i \in DOMAIN imageKeys}))))
        read(k, key) == IF k \in DOMAIN recs THEN reach(D(recs[k]), key)
                        ELSE Raise("KeyError")
        imagePaths == [i \in DOMAIN imageKeys |->
                         read(imageKeys[i], PathKey).n.v]
        weightPaths ==
            IF weightPathKey = None THEN NoCheckList
            ELSE CheckListOf([i \in DOMAIN imageKeys |->
                                 read(imageKeys[i], WeightKey).n.v]) IN
    IF \E i \in DOMAIN imageKeys :
          \/ read(imageKeys[i], PathKey).kind # "value"
          \/ weightPathKey # None
             /\ read(imageKeys[i], WeightKey).kind # "value"
    THEN [err |-> "KeyError", self |-> NoStage]
    ELSE [err |-> "none",
          self |-> Swarp_init(imagePaths, weightPaths, defaultsPath, cfg,
                              "")]

\* Scamp.__init__(seCatPaths, imageKeys=, defaultsPath=, configs=,
\* checks=None, useFileRefs=)
Scamp_init(seCatPaths, imageKeys, defaultsPath, cfg, useFileRefs) ==
    [kind |-> "scamp", catalogPaths |-> seCatPaths, imageKeys |-> imageKeys,
     useFileRefs |-> useFileRefs]
    @@ Stage(cfg, "scamp", defaultsPath) @@ StageFields

\* Scamp.from_db(imageLog, imageKeys, seCatKey, defaultsPath=, configs=,
\* useFileRefs=): records[imageKey][seCatKey] of the records get_images
\* returns, and the class is called with useFileRefs=False.
Scamp_from_db(coll, imageKeys, seCatKey, defaultsPath, cfg, useFileRefs) ==
    LET records == DictOf(MongoFind(coll,
                    find_selector(EmptyFn,
                        ImagesOf({imageKeys[i] : i \in DOMAIN imageKeys}))))
        found(k) == k \in DOMAIN records /\ seCatKey \in DOMAIN records[k]
    IN
    IF \E i \in DOMAIN imageKeys : ~found(imageKeys[i])
    THEN [err |-> "KeyError", self |-> NoStage]
    ELSE [err |-> "none",
          self |-> Scamp_init([i \in DOMAIN imageKeys |->
                                  records[imageKeys[i]][seCatKey].v],
                              imageKeys, defaultsPath, cfg, FALSE)]

\* SourceExtractor.__init__(fitsPath, catalogName, configs=, workDir=,
\* defaultsPath=)
SourceExtractor_init(fitsPath, name, cfg, workDir, defaultsPath) ==
    [kind |-> "se", inputPath |-> fitsPath,
     catalogPath |-> catalog_path(workDir, name),
     checkList |-> CheckListOf(<<>>)]
    @@ Stage(cfg, workDir, defaultsPath) @@ StageFields

\* PSFex.__init__(catalogPaths, imageKeys=, defaultsPath=, configs=,
\* xmlKey=, workDir=): super().__init__() takes no argument, so that
\* defaultsPath stays None; groupName is the first image key.
PSFex_init(catalogPaths, imageKeys, defaultsPath, cfg, xmlKey, workDir) ==
    [kind |-> "psfex", catalogPaths |-> catalogPaths,
     imageKeys |-> imageKeys, xmlKey |-> xmlKey, groupName |-> imageKeys[1]]
    @@ Stage(cfg, workDir, None) @@ StageFields

\* Scamp.refcatalog_paths: glob(workDir/<ASTREF_CATALOG>*.cat)
refcatalog_paths(self, fs) ==
    SelectSeq(<<JoinPath(self.workDir,
                         self.configs.d["ASTREF_CATALOG"] \o "_0.cat")>>,
              LAMBDA path : path \in fs.disk)

\* Scamp.make_command with checks=None: the instance and the files it
\* leaves, and the path of its input list.
Scamp_make_command(self, fs, by) ==
    LET d == add_default_param_to_configs(self, fs, by)
        l == write_input_file_list(d.self, d.fs, "inputlist", by)
        refs == IF "ASTREF_CATALOG" \in DOMAIN d.self.configs.d
                THEN refcatalog_paths(d.self, l.fs) ELSE <<>>
        cfg1 == IF self.useFileRefs
                THEN add_to_configs(
                         add_to_configs(d.self.configs, "ASTREF_CATALOG",
                                        "FILE"),
                         "ASTREFCAT_NAME", Concat(join(",", refs)))
                ELSE d.self.configs
        cfg2 == add_to_configs(cfg1, "CHECKPLOT_TYPE", "NONE") IN
    IF self.useFileRefs /\ "ASTREF_CATALOG" \notin DOMAIN d.self.configs.d
    THEN [err |-> "KeyError", self |-> d.self, fs |-> l.fs,
          listPath |-> l.path]
    ELSE [err |-> "none", self |-> [d.self EXCEPT !.configs = cfg2],
          fs |-> l.fs, listPath |-> l.path]

\* PSFex.make_command: the catalogs on the command line.
PSFex_input(catalogPaths) == Concat(join(",", catalogPaths))

\* make_command() of a stage instance: the instance, the files and the list
\* texts it can leave, and the command it returns or the exception it
\* raises.  Swarp writes its lists in the iteration order of swarpInputs.
Stage_make_command(self, fs, texts, by) ==
    IF self.kind = "swarp" THEN
        LET r == Swarp_make_command(self, fs, by)
            listPath == write_input_file_list(self, fs,
                            "inputlist" \o self.uniqueExt, by).path
            weightListPath == write_input_file_list(self, fs,
                            "weightlist" \o self.uniqueExt, by).path
            inputFITSPaths(o) ==
                [i \in DOMAIN o |-> Path(self.swarpInputs[o[i]].path)]
            inputWeightPaths(o) ==
                [i \in DOMAIN o |-> Path(self.swarpInputs[o[i]].weight)]
            t1(o) == list_file_written(texts, listPath,
                         listString(newPathList(inputFITSPaths(o))))
            t2(o) == list_file_written(t1(o), weightListPath,
                         listString(newPathList(inputWeightPaths(o)))) IN
        {[err |-> "none", self |-> r.self, fs |-> r.fs,
          texts |-> IF self.useWeights THEN t2(o) ELSE t1(o),
          command |-> cmd] :
            o \in Orders(DOMAIN self.swarpInputs), cmd \in r.commands}
    ELSE IF self.kind = "scamp" THEN
        LET r == Scamp_make_command(self, fs, by)
            t == list_file_written(texts, r.listPath,
                                   listString(self.catalogPaths)) IN
        IF r.err # "none"
        THEN {[err |-> r.err, self |-> r.self, fs |-> r.fs, texts |-> t,
               command |-> NoCommand]}
        ELSE {[err |-> "none", self |-> r.self, fs |-> r.fs, texts |-> t,
               command |-> Joined("scamp", "@" \o r.listPath, cc)] :
                 cc \in make_config_command(r.self.configs)}
    ELSE IF self.kind = "se" THEN
        LET r == SourceExtractor_make_command(self, self.catalogPath, fs, by)
        IN
        {[err |-> "none", self |-> r.self, fs |-> r.fs, texts |-> texts,
          command |-> Joined("sex", self.inputPath, cc)] :
             cc \in make_config_command(r.self.configs)}
    ELSE
        LET r == PSFex_make_command(self, self.groupName, self.xmlKey, fs,
                                    by) IN
        IF r.err # "none"
        THEN {[err |-> r.err, self |-> r.self, fs |-> r.fs,
               texts |-> texts, command |-> NoCommand]}
        ELSE {[err |-> "none", self |-> r.self, fs |-> r.fs,
               texts |-> texts,
               command |-> Joined("psfex", PSFex_input(self.catalogPaths),
                                  cc)] :
                 cc \in make_config_command(r.self.configs)}

\* ------------------------------------------------- stage instances: actions
Returned(op, arg, kind, v) == [op |-> op, arg |-> arg, kind |-> kind, v |-> v]

\* The caller's make_command(), and the one run() begins with (inRun).
MakeCommandCall(inRun) ==
    \E r \in Stage_make_command(stage, Fs, files, "stage") :
       /\ stage' = [r.self EXCEPT
             !.st = IF r.err = "none" /\ @ = "constructed" THEN "configured"
                    ELSE @,
             !.pc = IF r.err = "none" /\ inRun THEN "made" ELSE "idle",
             !.ret = Returned(IF inRun THEN "run" ELSE "make_command", "",
                              IF r.err = "none" THEN "value" ELSE r.err, "")]
       /\ disk' = r.fs.disk
       /\ dumps' = r.fs.dumps
       /\ writers' = r.fs.writers
       /\ files' = r.texts
       /\ command' = IF r.err = "none" THEN r.command ELSE command

StageMakeCommand ==
    /\ stage.kind # "none"
    /\ stage.pc = "idle"
    /\ MakeCommandCall(FALSE)
    /\ UNCHANGED <<storeVars, configVars, swarp, batchVars, settings, decomp>>

\* run(): command = self.make_command()
StageRun ==
    /\ stage.kind # "none"
    /\ stage.pc = "idle"
    /\ stage.launches < MaxRuns
    /\ MakeCommandCall(TRUE)
    /\ UNCHANGED <<storeVars, configVars, swarp, batchVars, settings, decomp>>

\* run(): p = subprocess.Popen(command, shell=True)
StageLaunch ==
    /\ stage.pc = "made"
    /\ stage' = [stage EXCEPT !.st = "running", !.pc = "waiting",
                              !.proc = "running", !.launches = @ + 1]
    /\ UNCHANGED <<storeVars, configVars, swarp, batchVars, settings, decomp,
                   diskVars, files, command>>

\* The tool process exits, with success or not.
StageExit(status) ==
    /\ stage.proc = "running"
    /\ stage' = [stage EXCEPT !.proc = status]
    /\ UNCHANGED <<storeVars, configVars, swarp, batchVars, settings, decomp,
                   diskVars, files, command>>

\* run(): p.wait() returns and run() does.
StageReturn ==
    /\ stage.pc = "waiting"
    /\ wait_returned(stage.proc)
    /\ stage' = [stage EXCEPT
          !.st = "completed", !.pc = "idle",
          !.ret = Returned("run", "",
                     IF Astromatic_run(stage.proc) = "returned" THEN "None"
                     ELSE Astromatic_run(stage.proc), "")]
    /\ UNCHANGED <<storeVars, configVars, swarp, batchVars, settings, decomp,
                   diskVars, files, command>>

\* se.set_check_images(checkList, workDir) and
\* psfex.set_check_images(checkList, "psfex", workDir/checks)
StageSetCheckImages(checkList) ==
    /\ stage.kind \in {"se", "psfex"}
    /\ stage.pc = "idle"
    /\ LET r == IF stage.kind = "se"
                THEN SourceExtractor_set_check_images(stage, checkList)
                ELSE PSFex_set_check_images(stage, checkList, "psfex",
                         JoinPath(stage.workDir, "checks")) IN
       stage' = [r.self EXCEPT
                   !.ret = Returned("set_check_images", "",
                              IF r.err = "none" THEN "None" ELSE r.err, "")]
    /\ UNCHANGED <<storeVars, configVars, swarp, batchVars, settings, decomp,
                   diskVars, files, command>>

\* stage.check_path(checkType)
StageCheckPath(checkType) ==
    /\ stage.kind \in {"se", "psfex"}
    /\ stage.pc = "idle"
    /\ LET r == check_path(stage, checkType) IN
       stage' = [stage EXCEPT
                   !.ret = Returned("check_path", checkType, r.kind, r.v)]
    /\ UNCHANGED <<storeVars, configVars, swarp, batchVars, settings, decomp,
                   diskVars, files, command>>

\* stage.write_input_file_list(paths, name=name): Swarp's override expands
\* the entries that are lists; in the base class "\n".join(paths) of a list
\* that holds a list is a TypeError.
StageWriteList(paths, name) ==
    /\ stage.kind # "none"
    /\ stage.pc = "idle"
    /\ LET l == write_input_file_list(stage, Fs, name, "stage")
           strs == IF stage.kind = "swarp" THEN newPathList(paths)
                   ELSE [i \in DOMAIN paths |-> paths[i].p] IN
       IF stage.kind # "swarp" /\ \E i \in DOMAIN paths : paths[i].list
       THEN /\ stage' = [stage EXCEPT
                   !.ret = Returned("write_input_file_list", name,
                                    "TypeError", "")]
            /\ UNCHANGED <<diskVars, files>>
       ELSE /\ stage' = [stage EXCEPT
                   !.listed = paths,
                   !.ret = Returned("write_input_file_list", name, "value",
                                    l.path)]
            /\ disk' = l.fs.disk
            /\ dumps' = l.fs.dumps
            /\ writers' = l.fs.writers
            /\ files' = list_file_written(files, l.path, listString(strs))
    /\ UNCHANGED <<storeVars, configVars, swarp, batchVars, settings, decomp,
                   command>>

\* ----------------------------------------------------------- settings file
\* A value of the JSON settings file: a dict, a string, a number, a list or
\* null.
JDict(f) == [t |-> "dict", s |-> "", n |-> 0, d |-> f]
JStr(str) == [t |-> "str", s |-> str, n |-> 0, d |-> EmptyFn]
JInt(n) == [t |-> "int", s |-> "", n |-> n, d |-> EmptyFn]
JList == [t |-> "list", s |-> "", n |-> 0, d |-> EmptyFn]
JNull == [t |-> "null", s |-> "", n |-> 0, d |-> EmptyFn]

\* The file at $MOASTROCONFIG or $HOME/.moastro.json: missing, a text that
\* is not JSON, or the text of a JSON value.
NoFile == [there |-> FALSE, json |-> FALSE, j |-> JNull]
NotJSON == [there |-> TRUE, json |-> FALSE, j |-> JNull]
JSONFile(j) == [there |-> TRUE, json |-> TRUE, j |-> j]

Got(j) == [kind |-> "value", j |-> j]
Raised(kind) == [kind |-> kind, j |-> JNull]

\* x[key] of a value read from JSON, key a string: a dict without the key
\* raises KeyError, anything that is not a dict TypeError.
Subscript(x, key) ==
    IF x.kind # "value" THEN x
    ELSE IF x.j.t # "dict" THEN Raised("TypeError")
    ELSE IF key \notin DOMAIN x.j.d THEN Raised("KeyError")
    ELSE Got(x.j.d[key])

\* read_settings: json.loads of the text of the file; except IOError:
\* return {}.
read_settings(file) ==
    IF ~file.there THEN Got(JDict(EmptyFn))
    ELSE IF ~file.json THEN Raised("ValueError")
    ELSE Got(file.j)

DefaultUrl == JStr("localhost")
DefaultPort == JInt(27017)
Located(kind, url, port) == [kind |-> kind, url |-> url, port |-> port]

\* locate_server: conf['servers'][servername]['url'] and ['port'];
\* except KeyError: the defaults.
locate_server(file, servername) ==
    LET conf == read_settings(file)
        entry == Subscript(Subscript(conf, "servers"), servername)
        url == Subscript(entry, "url")
        port == Subscript(entry, "port")
    IN  IF conf.kind # "value" THEN Located(conf.kind, JNull, JNull)
        ELSE IF url.kind = "KeyError" THEN
            Located("value", DefaultUrl, DefaultPort)
        ELSE IF url.kind # "value" THEN Located(url.kind, JNull, JNull)
        ELSE IF port.kind = "KeyError" THEN
            Located("value", DefaultUrl, DefaultPort)
        ELSE IF port.kind # "value" THEN Located(port.kind, JNull, JNull)
        ELSE Located("value", url.j, port.j)

NoSettings ==
    [file |-> NoFile, op |-> "none", servername |-> "",
     ret |-> Located("none", JNull, JNull), calls |-> 0]

settingsRest ==
    <<storeVars, configVars, swarp, diskVars, command, batchVars, stage,
      files, decomp>>

\* A call of read_settings().
ReadSettings ==
    /\ settings.calls < MaxOps
    /\ LET conf == read_settings(settings.file) IN
       settings' = [settings EXCEPT !.op = "read_settings",
                       !.servername = "",
                       !.ret = Located(conf.kind, conf.j, JNull),
                       !.calls = @ + 1]
    /\ UNCHANGED settingsRest

\* A call of locate_server(servername).
LocateServer(servername) ==
    /\ settings.calls < MaxOps
    /\ settings' = [settings EXCEPT !.op = "locate_server",
                       !.servername = servername,
                       !.ret = locate_server(settings.file, servername),
                       !.calls = @ + 1]
    /\ UNCHANGED settingsRest

\* ------------------------------------------------------------ decompression
\* The directories and file names of the FITS paths a record can hold.
DecompDirs == {"raw", "unpacked"}
FitsNames ==
    {k \o e : k \in {"img01", "img02"}, e \in {"", ".fits", ".fits.fz"}}
FitsPaths == {JoinPath(d, b) : d \in DecompDirs, b \in FitsNames}

\* os.path.basename(path)
basename(path) ==
    CHOOSE b \in FitsNames : \E d \in DecompDirs : path = JoinPath(d, b)

\* os.path.splitext(path)[0]: the path without its last extension, the path
\* itself when it has none.
splitext_root(path) ==
    LET roots == {r \in FitsPaths :
                    \E e \in {".fits", ".fz"} : path = r \o e} IN
    IF roots = {} THEN path ELSE CHOOSE r \in roots : TRUE

\* decompress_fits: outputPath of a record.
outputPath(origPath, decompDir) ==
    IF decompDir # None
    THEN JoinPath(decompDir, basename(splitext_root(origPath)))
    ELSE splitext_root(origPath)

\* getiter(selector, pathKey): find(selector, fields=[pathKey]) returns of
\* each record its _id and the pathKey field only.
Projected(doc, pathKey) == [f \in DOMAIN doc \cap {"_id", pathKey} |-> doc[f]]

\* decompress_fits, the body of the loop for one record rec, on the files
\* that exist: whether the output exists, is removed, and the record skipped.
Unpack(rec, pathKey, decompKey, decompDir, overwrite, existing) ==
    LET origPath == rec[pathKey].v
        out == outputPath(origPath, decompDir)
        exists == out \in existing IN
    [key |-> rec["_id"].v, origPath |-> origPath, outputPath |-> out,
     exists |-> exists, removed |-> exists /\ overwrite,
     skipped |-> /\ exists
                 /\ decompKey \in DOMAIN rec
                 /\ rec[decompKey] = S(out)]

NoDecomp ==
    [op |-> "none", err |-> "none", decompKey |-> "", overwrite |-> FALSE,
     plan |-> {}, launched |-> {}, ok |-> {}, calls |-> 0]

\* imageLog.decompress_fits("path", decompKey=, decompDir=, selector=,
\* delete=, overwrite=): the records are taken in the order of the cursor;
\* rec[pathKey] of a record without the field raises KeyError out of the
\* loop, before any funpack is started.  pool.map and map give the same
\* results in the same order, and the status of funpack is not looked at:
\* ok is the set of the records whose funpack wrote its output.
DecompressFits(decompKeyArg, decompDir, selector, delete, overwrite) ==
    /\ decomp.calls < MaxOps
    /\ LET pathKey == "path"
           decompKey == IF decompKeyArg = None THEN pathKey ELSE decompKeyArg
           docs == MongoFind(c, insert_query_mask(selector))
           order == SortKeys({Id(doc) : doc \in docs})
           rec(n) == Projected(CHOOSE doc \in docs : Id(doc) = order[n],
                               pathKey)
           bad == {n \in DOMAIN order : pathKey \notin DOMAIN rec(n)}
           reached == {n \in DOMAIN order : \A m \in bad : n < m}
           plan == {Unpack(rec(n), pathKey, decompKey, decompDir, overwrite,
                           disk) : n \in reached}
           left == disk \ {u.outputPath : u \in {v \in plan : v.removed}}
           args == {u \in plan : ~u.skipped}
           out(k) == (CHOOSE u \in args : u.key = k).outputPath
           results == SelectSeq(order,
                                LAMBDA k : k \in {u.key : u \in args})
       IN
       IF bad # {}
       THEN /\ disk' = left
            /\ decomp' = [op |-> "decompress_fits", err |-> "KeyError",
                          decompKey |-> decompKey, overwrite |-> overwrite,
                          plan |-> plan, launched |-> {}, ok |-> {},
                          calls |-> decomp.calls + 1]
            /\ UNCHANGED c
       ELSE \E ok \in SUBSET {u.key : u \in args} :
            /\ \A u \in args : u.key \in ok => u.origPath \in left
            /\ disk' = (left \ IF delete
                                THEN {u.origPath : u \in
                                         {v \in args : v.key \in ok}}
                                ELSE {})
                        \cup {out(k) : k \in ok}
            /\ c' \in set_each(c, [n \in DOMAIN results |->
                                     <<results[n], <<decompKey>>,
                                       out(results[n])>>])
            /\ decomp' = [op |-> "decompress_fits", err |-> "none",
                          decompKey |-> decompKey, overwrite |-> overwrite,
                          plan |-> plan, launched |-> {u.key : u \in args},
                          ok |-> ok, calls |-> decomp.calls + 1]
    /\ UNCHANGED <<queryMask, last, nops, configVars, swarp, dumps, writers,
                   command, batchVars, stage, files, settings>>

\* ------------------------------------------------------- the specifications
\* The stores a query can meet: img01 and img02 with either instrument, with
\* and without the extension sub-document, img02 also without INSTRUME.
Record(key, fields) == ("_id" :> S(key)) @@ fields
QueryCollections ==
    { {Record("img01", r1), Record("img02", r2)} :
        r1 \in {("INSTRUME" :> S("A")) @@ ("0" :> D("cat" :> S("A"))),
                "INSTRUME" :> S("B")},
        r2 \in {"INSTRUME" :> S("A"), "INSTRUME" :> S("B"),
                "0" :> D("cat" :> S("B"))} }

ConfigStart ==
    /\ configs = ConfigNone
    /\ written = EmptyFn
    /\ cfgLast = NoConfigCall

MoreStart ==
    /\ stage = NoStage
    /\ files = EmptyFn
    /\ settings = NoSettings
    /\ decomp = NoDecomp

StageStart ==
    /\ MoreStart
    /\ swarp = NoSwarp
    /\ disk = {}
    /\ dumps = EmptyFn
    /\ writers = EmptyFn
    /\ command = NoCommand
    /\ batch = NoBatch
    /\ phase = "idle"
    /\ up = <<>>

StoreStart ==
    /\ c = InitialCollection
    /\ queryMask = EmptyFn
    /\ last = NoCall
    /\ nops = 0

\* An ImageLog on the initial collection, with any of the masks; updates and
\* dotted-path reads of its records.
Init ==
    /\ c = InitialCollection
    /\ queryMask \in Masks
    /\ last = NoCall
    /\ nops = 0
    /\ ConfigStart
    /\ StageStart

Next ==
    \/ \E k \in Keys, t \in SetTargets, v \in Vals : Set(k, t[1], v, t[2])
    \/ \E data \in FramesArgs : SetFrames(<<"cat">>, data)
    \/ \E r \in RenamePairs, a \in SelectorArgs, multi \in BOOLEAN :
          RenameField(r[1], r[2], a, multi)
    \/ \E k \in DataKeys, a \in SelectorArgs, multi \in BOOLEAN :
          DeleteField(k, a, multi)
    \/ \E k \in DataKeys, a \in SelectorArgs : DeleteFiles(k, a)
    \/ \E doc \in c, p \in ReadPaths : Reach(doc, p)
    \/ \E doc \in c, p \in ReadPaths : DocGetItem(doc, p)

Spec == Init /\ [][Next]_vars

\* An ImageLog on any of the stores, with any of the masks; queries.
InitQuery ==
    /\ c \in QueryCollections
    /\ queryMask \in Masks
    /\ last = NoCall
    /\ nops = 0
    /\ ConfigStart
    /\ StageStart

NextQuery ==
    \/ \E key \in Keys : GetItem(key)
    \/ \E s \in Selectors, i \in ImagesArgs, one \in BOOLEAN : Find(s, i, one)
    \/ \E s \in Selectors, i \in ImagesArgs : FindDict(s, i)
    \/ \E s \in Selectors, i \in ImagesArgs : FindImages(s, i)
    \/ \E s \in Selectors, i \in ImagesArgs : Distinct(INSTRUME, s, i)

SpecQuery == InitQuery /\ [][NextQuery]_vars

\* An Astromatic wrapper built with configs=None or with an empty dict.
InitConfig ==
    /\ StoreStart
    /\ configs \in {ConfigNone, ConfigDict(EmptyFn)}
    /\ written = EmptyFn
    /\ cfgLast = NoConfigCall
    /\ StageStart

NextConfig ==
    \/ \E k \in ConfigKeys, v \in ConfigVals : AddToConfigs(k, v)
    \/ \E k \in ConfigKeys, n \in {None, NullString} : SetNullConfig(k, n)
    \/ MakeConfigCommand

SpecConfig == InitConfig /\ [][NextConfig]_vars

\* A Swarp built with or without weight paths, with the configs the caller
\* supplied; the configured defaults file exists or not.
SwarpDefaults == "swarp.conf"
CallerConfigs ==
    {ConfigNone, ConfigDict(EmptyFn), ConfigDict("WEIGHT_IMAGE" :> "w.fits"),
     ConfigDict(("WEIGHT_IMAGE" :> "w.fits") @@ ("COMBINE_TYPE" :> "MEDIAN"))}
InitSwarp ==
    /\ StoreStart
    /\ configs \in CallerConfigs
    /\ written = EmptyFn
    /\ cfgLast = NoConfigCall
    /\ swarp \in {SwarpInstance(w, d, u) :
                     w \in BOOLEAN, d \in {None, SwarpDefaults},
                     u \in {"", "_a"}}
    /\ disk \in {{}, {SwarpDefaults}}
    /\ dumps = EmptyFn
    /\ writers = EmptyFn
    /\ command = NoCommand
    /\ batch = NoBatch
    /\ phase = "idle"
    /\ up = <<>>
    /\ MoreStart

NextSwarp ==
    \/ SwarpMakeCommand
    \/ \E v \in ConfigVals : AddToConfigs("WEIGHT_IMAGE", v)

SpecSwarp == InitSwarp /\ [][NextSwarp]_vars

\* A batch coordinator on a store of two records: both complete, or img02
\* of another instrument, or img02 without the field the batch reads.  The
\* store of a PSFex batch holds the catalogs of an earlier source
\* extraction.  img03 is in no store.
BatchDoc(kind, key, inst, complete) ==
    Record(key,
        ("INSTRUME" :> S(inst))
        @@ (IF kind = "se" /\ ~complete THEN EmptyFn
            ELSE "path" :> S(JoinPath("raw", key \o ".fits")))
        @@ (IF kind = "se" \/ ~complete THEN EmptyFn
            ELSE "cat" :> S(catalog_path("se",
                                         catalogName(key, CatPostfix)))))
BatchStores(kind) ==
    { {BatchDoc(kind, "img01", "A", TRUE),
       BatchDoc(kind, "img02", v[1], v[2])} :
        v \in {<<"A", TRUE>>, <<"B", TRUE>>, <<"A", FALSE>>} }
SEUnits ==
    { << <<"img01">>, <<"img02">> >>, << <<"img02">>, <<"img01">> >>,
      << <<"img01">>, <<"img03">> >> }
PSFexUnits ==
    { << <<"img01">>, <<"img02">> >>, << <<"img02">>, <<"img01">> >>,
      << <<"img01", "img03">>, <<"img02">> >> }
BatchConfigs == {ConfigNone, ConfigDict(EmptyFn)}
BatchChecks == {<<>>, <<"BOGUS">>}
BatchMasks == {EmptyFn, INSTRUME :> Eq("A")}
Workers == {1, 2}

InitBatch ==
    /\ MoreStart
    /\ queryMask \in BatchMasks
    /\ last = NoCall
    /\ nops = 0
    /\ ConfigStart
    /\ swarp = NoSwarp
    /\ dumps = EmptyFn
    /\ writers = EmptyFn
    /\ command = NoCommand
    /\ phase = "idle"
    /\ up = <<>>
    /\ \/ /\ batch \in {SEBatch(u, d, n, cfg, ch) :
                          u \in SEUnits, d \in BOOLEAN, n \in Workers,
                          cfg \in BatchConfigs, ch \in BatchChecks}
          /\ c \in BatchStores("se")
          /\ disk \in {{}, {"se/config.sex"}}
       \/ /\ batch \in {PSFexBatch(u, d, n, cfg, ch, x) :
                          u \in PSFexUnits, d \in BOOLEAN, n \in Workers,
                          cfg \in BatchConfigs, ch \in BatchChecks,
                          x \in {None, XmlKey}}
          /\ c \in BatchStores("psfex")
          /\ disk = {}

NextBatch ==
    \/ RunSE
    \/ RunPSFex
    \/ \E i \in UnitIds : Configure(i)
    \/ \E i \in UnitIds : Launch(i)
    \/ \E i \in UnitIds, status \in {"ok", "fail"} : Exit(i, status)
    \/ \E i \in UnitIds : ReturnSE(i)
    \/ \E i \in UnitIds : SavePSFex(i)
    \/ PersistSE
    \/ ReturnPSFex
    \/ RaiseFromPool

SpecBatch == InitBatch /\ [][NextBatch]_vars

\* A stage instance of any of the four classes, built directly or by its
\* from_db factory from a store of two records; img02 is an image of its own
\* or shares its base name with img01 in another directory.
StageDoc(key, path) ==
    Record(key, ("path" :> S(path))
                @@ ("weight" :> S(JoinPath("w", key \o ".fits")))
                @@ ("cat" :> S(catalog_path("se",
                                            catalogName(key, CatPostfix)))))
StageStores ==
    { {StageDoc("img01", "raw/img01.fits"), StageDoc("img02", p)} :
        p \in {"raw/img02.fits", "se/img01.fits"} }
StageKeys == {<<"img01", "img02">>, <<"img02", "img01">>}
StageConfigs == {ConfigNone, ConfigDict(EmptyFn)}
SwarpImagePaths ==
    {<<"raw/img01.fits", "raw/img02.fits">>,
     <<"raw/img02.fits", "raw/img01.fits">>,
     <<"raw/img01.fits", "se/img01.fits">>}
WeightsOf(imagePaths) ==
    CheckListOf([i \in DOMAIN imagePaths |->
                    JoinPath("w", Stem(imagePaths[i]) \o
                                  (IF i = 1 THEN "_a" ELSE "_b") \o ".fits")])
StageOf(self, asked) == [self EXCEPT !.asked = asked]
SwarpStages(coll) ==
    {StageOf(Swarp_init(ip, IF w THEN WeightsOf(ip) ELSE NoCheckList, None,
                        cfg, u),
             Asked("direct", cfg, u, FALSE)) :
        ip \in SwarpImagePaths, w \in BOOLEAN, cfg \in StageConfigs,
        u \in {"", "_a"}}
    \cup
    {StageOf(Swarp_from_db(coll, ks, wk, None, ConfigNone, u).self,
             Asked("from_db", ConfigNone, u, FALSE)) :
        ks \in StageKeys, wk \in {None, "weight"}, u \in {"", "_a"}}
ScampStages(coll) ==
    {StageOf(Scamp_init(<<"se/img01_se_cat.fits">>, <<"img01">>, None, cfg,
                        f),
             Asked("direct", cfg, "", f)) :
        cfg \in StageConfigs \cup {ConfigDict("ASTREF_CATALOG" :> "2MASS")},
        f \in BOOLEAN}
    \cup
    {StageOf(Scamp_from_db(coll, <<"img01", "img02">>, "cat", None, cfg,
                           f).self,
             Asked("from_db", cfg, "", f)) :
        cfg \in {ConfigNone, ConfigDict("ASTREF_CATALOG" :> "2MASS")},
        f \in BOOLEAN}
ExtractorStages ==
    {StageOf(SourceExtractor_init("raw/img01.fits",
                                  catalogName("img01", CatPostfix), cfg,
                                  "se", "se/config.sex"),
             Asked("direct", cfg, "", FALSE)) :
        cfg \in StageConfigs}
PSFexStages ==
    {StageOf(PSFex_init(<<"se/img01_se_cat.fits">>, <<"img01">>, None, cfg,
                        x, "psfex"),
             Asked("direct", cfg, "", FALSE)) :
        cfg \in StageConfigs, x \in {None, XmlKey}}
CheckLists ==
    {<<>>, <<"SEGMENTATION">>, <<"BACKGROUND", "SEGMENTATION">>, <<"CHI">>}
CheckTypes == {"SEGMENTATION", "BACKGROUND", "CHI"}
ListArgs ==
    {<<>>, <<Path("raw/img01.fits")>>,
     <<Path("raw/img02.fits"), Path("raw/img01.fits")>>,
     <<PathList(<<"r/img01.0002.fits", "r/img01.0001.fits">>),
       Path("raw/img02.fits")>>}

StageInit ==
    /\ c \in StageStores
    /\ queryMask = EmptyFn
    /\ last = NoCall
    /\ nops = 0
    /\ ConfigStart
    /\ swarp = NoSwarp
    /\ disk = {}
    /\ dumps = EmptyFn
    /\ writers = EmptyFn
    /\ command = NoCommand
    /\ batch = NoBatch
    /\ phase = "idle"
    /\ up = <<>>
    /\ files = EmptyFn
    /\ settings = NoSettings
    /\ decomp = NoDecomp

\* The life of a stage instance: make_command and run.
InitStage ==
    /\ StageInit
    /\ stage \in SwarpStages(c) \cup ScampStages(c) \cup ExtractorStages
                 \cup PSFexStages

NextStage ==
    \/ StageMakeCommand
    \/ StageRun
    \/ StageLaunch
    \/ \E status \in {"ok", "fail"} : StageExit(status)
    \/ StageReturn

SpecStage == InitStage /\ [][NextStage]_vars

\* The check images of a source-extraction or PSF stage.
InitChecks ==
    /\ StageInit
    /\ stage \in ExtractorStages \cup PSFexStages

NextChecks ==
    \/ \E l \in CheckLists : StageSetCheckImages(l)
    \/ \E t \in CheckTypes : StageCheckPath(t)

SpecChecks == InitChecks /\ [][NextChecks]_vars

\* The list files of a Swarp or Scamp built directly, without configs.
InitLists ==
    /\ StageInit
    /\ stage \in {i \in SwarpStages(c) \cup ScampStages(c) :
                     /\ i.asked.configs = ConfigNone
                     /\ i.asked.factory = "direct"
                     /\ i.asked.uniqueExt = ""}

NextLists ==
    \/ \E l \in ListArgs, name \in {"inputlist", "list"} :
          StageWriteList(l, name)
    \/ StageMakeCommand

SpecLists == InitLists /\ [][NextLists]_vars

\* The settings files: none, a text that is not JSON, a JSON list, and dicts
\* without servers, with servers that is null or a list, and with servers
\* naming "local" and "marvin" or not, the entry of "local" with and without
\* its url and port, or a "host:port" string, or null.
ServerNames == {"local", "marvin", "nowhere"}
LocalEntries ==
    {JStr("localhost:27017"), JNull} \cup
    {JDict([k \in ks |-> IF k = "url" THEN JStr("localhost")
                         ELSE JInt(27017)]) : ks \in SUBSET {"url", "port"}}
MarvinEntry == JDict(("url" :> JStr("db.example.org")) @@ ("port" :> JInt(27018)))
ServersDicts ==
    {JDict([k \in named |-> IF k = "local" THEN le ELSE MarvinEntry]) :
        named \in SUBSET {"local", "marvin"}, le \in LocalEntries}
SettingsFiles ==
    {NoFile, NotJSON, JSONFile(JList), JSONFile(JDict(EmptyFn)),
     JSONFile(JDict("servers" :> JNull)), JSONFile(JDict("servers" :> JList))}
    \cup {JSONFile(JDict("servers" :> d)) : d \in ServersDicts}

InitSettings ==
    /\ StoreStart
    /\ ConfigStart
    /\ swarp = NoSwarp
    /\ disk = {}
    /\ dumps = EmptyFn
    /\ writers = EmptyFn
    /\ command = NoCommand
    /\ batch = NoBatch
    /\ phase = "idle"
    /\ up = <<>>
    /\ stage = NoStage
    /\ files = EmptyFn
    /\ decomp = NoDecomp
    /\ settings \in {[NoSettings EXCEPT !.file = f] : f \in SettingsFiles}

NextSettings ==
    \/ ReadSettings
    \/ \E servername \in ServerNames : LocateServer(servername)

SpecSettings == InitSettings /\ [][NextSettings]_vars

\* The stores decompress_fits meets: img01 and img02 with the path of a
\* compressed file, of a FITS file or of a file without extension, img02
\* also without a path; the files of the paths exist.
DecompDoc(key, ext) ==
    IF ext = None THEN Record(key, "INSTRUME" :> S("A"))
    ELSE Record(key, ("INSTRUME" :> S("A"))
                     @@ ("path" :> S(JoinPath("raw", key \o ext))))
DecompStores ==
    { {DecompDoc("img01", e1), DecompDoc("img02", e2)} :
        e1 \in {".fits.fz", ".fits", ""}, e2 \in {".fits.fz", ".fits", None} }
DecompKeys == {None, "unpacked"}
DecompSelectors == {EmptyFn, <<"_id">> :> Eq("img01")}

InitDecomp ==
    /\ c \in DecompStores
    /\ queryMask = EmptyFn
    /\ last = NoCall
    /\ nops = 0
    /\ ConfigStart
    /\ swarp = NoSwarp
    /\ disk = {doc["path"].v : doc \in {d \in c : "path" \in DOMAIN d}}
    /\ dumps = EmptyFn
    /\ writers = EmptyFn
    /\ command = NoCommand
    /\ batch = NoBatch
    /\ phase = "idle"
    /\ up = <<>>
    /\ stage = NoStage
    /\ files = EmptyFn
    /\ settings = NoSettings
    /\ decomp = NoDecomp

NextDecomp ==
    \E decompKey \in DecompKeys, decompDir \in {None, "unpacked"},
       selector \in DecompSelectors, delete \in BOOLEAN,
       overwrite \in BOOLEAN :
        DecompressFits(decompKey, decompDir, selector, delete, overwrite)

SpecDecomp == InitDecomp /\ [][NextDecomp]_vars

\* ===================================================================== claims
IdsOf(coll) == {Id(doc) : doc \in coll}
DocOf(coll, key) == CHOOSE doc \in coll : Id(doc) = key

\* The record meets the mask.
MeetsMask(doc) == Matches(doc, queryMask)

\* The record meets the caller's selector and, on the fields the caller does
\* not name, the mask (the caller's value goes first).
MeetsBoth(doc, selector) ==
    /\ Matches(doc, selector)
    /\ \A p \in DOMAIN queryMask \ DOMAIN selector :
          CondHolds(doc, p, queryMask[p])

InImages(doc, images) == images.given => Id(doc) \in images.ks

\* The step is a call of op that wrote to the collection.
Wrote(op) == last'.op = op /\ nops' = nops + 1

QueryOps == {"getitem", "find", "find_dict", "find_images", "distinct"}

\* C1: a query whose selector names no masked field returns only records
\* that match the mask: the documents of find, find_dict and key lookup, the
\* keys of find_images and the values of distinct all come from records that
\* meet the mask.
C1_QueriesStayInMask ==
    (last.op \in QueryOps /\ DOMAIN last.sel \cap DOMAIN queryMask = {}) =>
        /\ \A doc \in last.ret : MeetsMask(doc)
        /\ \A k \in DOMAIN last.dict : MeetsMask(last.dict[k])
        /\ \A i \in DOMAIN last.keys :
              \E doc \in c : Id(doc) = last.keys[i] /\ MeetsMask(doc)
        /\ \A n \in last.vals :
              \E doc \in c : MeetsMask(doc) /\ Lookup(doc, last.path).hit
                             /\ Lookup(doc, last.path).n = n

\* C2: on a store with a non-empty mask no write changes a record that fails
\* the mask.
C2_WritesStayInMask ==
    [][queryMask # EmptyFn =>
          \A doc \in c : ~MeetsMask(doc) => doc \in c']_vars

\* C3: a masked query selects with the caller's selector united with the
\* mask, the caller's value being used for a field both name (_id included):
\* key lookup returns a record that meets {"_id": key} first and the mask on
\* the other fields, and find, find_dict and find_images return the records
\* that meet the caller's selector first (and are among images, when given).
C3_CallerValueUsed ==
    /\ last.op = "getitem" =>
          last.ret \in OneOf({doc \in c :
                                MeetsBoth(doc, <<"_id">> :> Eq(last.key))})
    /\ last.op \in {"find", "find_dict", "find_images"} =>
          LET want == {doc \in c : MeetsBoth(doc, last.sel)
                                   /\ InImages(doc, last.images)} IN
          IF last.flag THEN last.ret \in OneOf(want) ELSE last.ret = want

\* C4: after set(key, b, v, ext=a), or set(key, "a.b", v), on a record whose
\* field a is absent or a sub-document, reading a.b with reach and with
\* ReachableDoc gives v, and every other field under a is as it was.
C4_DottedRoundTrip ==
    [][\A k \in Keys, t \in SetTargets, v \in Vals :
          LET path == set_path(t[1], t[2])
              a == path[1]
              b == path[2] IN
          ( /\ Wrote("set")
            /\ last'.key = k /\ last'.path = t[1] /\ last'.ext = t[2]
            /\ last'.val = v
            /\ Len(path) = 2
            /\ k \in IdsOf(c)
            /\ a \notin DOMAIN DocOf(c, k) \/ DocOf(c, k)[a].t = "d" )
          => /\ k \in IdsOf(c')
             /\ reach(D(DocOf(c', k)), path) = Value(S(v))
             /\ ReachableDoc_getitem(DocOf(c', k), path) = Value(S(v))
             /\ a \in DOMAIN DocOf(c, k) =>
                   \A g \in DOMAIN DocOf(c, k)[a].d \ {b} :
                      /\ g \in DOMAIN DocOf(c', k)[a].d
                      /\ DocOf(c', k)[a].d[g] = DocOf(c, k)[a].d[g]
      ]_vars

\* C4 witness: set(key, "cat", "B", ext="0") has acted on a record whose
\* extension held cat and psf; 0.cat reads "B" and psf is still there.
C4_Witness ==
    /\ last.op = "set" /\ last.ext = "0" /\ last.path = <<"cat">>
    /\ last.val = "B"
    /\ last.key \in IdsOf(c)
    /\ reach(D(DocOf(c, last.key)), <<"0", "cat">>) = Value(S("B"))
    /\ reach(D(DocOf(c, last.key)), <<"0", "psf">>) = Value(S("A"))

\* C5: a set call (and each set of set_frames) changes at most the record
\* whose _id is imageKey, creates and removes no record and changes no _id:
\* the keys of the collection are the same before and after.
C5_SetFrame ==
    [][ /\ Wrote("set") =>
              /\ IdsOf(c') = IdsOf(c)
              /\ Cardinality(c') = Cardinality(c)
              /\ \A doc \in c : Id(doc) # last'.key => doc \in c'
        /\ Wrote("set_frames") =>
              /\ IdsOf(c') = IdsOf(c)
              /\ Cardinality(c') = Cardinality(c)
              /\ \A doc \in c :
                    (\A i \in DOMAIN last'.keys : last'.keys[i] # Id(doc))
                       => doc \in c'
      ]_vars

\* C5 witness: a set on img01 changed that record; img02 is as it was at
\* the start and the keys are still img01 and img02.
C5_Witness ==
    /\ last.op = "set" /\ last.key = "img01" /\ nops = 1
    /\ IdsOf(c) = {"img01", "img02"}
    /\ DocOf(c, "img01") \notin InitialCollection
    /\ DocOf(c, "img02") \in InitialCollection

\* C6: reading a dotted path with reach or ReachableDoc gives the value the
\* path names, and a not-found error (KeyError) whenever a key on the path
\* is missing: absent, below a field that is no sub-document, or absent from
\* the sub-document.
C6_MissingIsNotFound ==
    last.op \in {"reach", "doc_getitem"} =>
        LET r == Lookup(DocOf(c, last.key), last.path) IN
        IF r.hit THEN last.got = Value(r.n)
        ELSE last.got.kind = "KeyError"

\* C7: rename_field and delete_field with multi change the field on every
\* record that meets the selector and the mask (rename_field: and has the
\* old field) and on no other record; without multi they change at most one
\* such record.
Renamed(doc, coll, old, new) ==
    \E d2 \in coll : /\ Id(d2) = Id(doc)
                     /\ old \notin DOMAIN d2
                     /\ new \in DOMAIN d2 /\ d2[new] = doc[old]
Deleted(doc, coll, path) ==
    \E d2 \in coll : Id(d2) = Id(doc) /\ ~Lookup(d2, path).hit

C7_BulkScope ==
    [][ /\ Wrote("rename_field") =>
              LET old == last'.path[1]
                  target == {doc \in c : MeetsBoth(doc, last'.sel)
                                         /\ old \in DOMAIN doc} IN
              /\ \A doc \in c \ target : doc \in c'
              /\ last'.flag =>
                    \A doc \in target : Renamed(doc, c', old, last'.new)
              /\ ~last'.flag => Cardinality(c \ c') <= 1
        /\ Wrote("delete_field") =>
              LET target == {doc \in c : MeetsBoth(doc, last'.sel)} IN
              /\ \A doc \in c \ target : doc \in c'
              /\ last'.flag =>
                    \A doc \in target : Deleted(doc, c', last'.path)
              /\ ~last'.flag => Cardinality(c \ c') <= 1
      ]_vars

\* C8: find(selector, images=K) returns exactly the records that meet the
\* selector and the mask and whose _id is in K; find_dict maps exactly the
\* _ids of those records, each to its own record.
C8_FindWithImages ==
    ( /\ last.op \in {"find", "find_dict"}
      /\ ~last.flag
      /\ last.images.given ) =>
        LET want == {doc \in c : MeetsBoth(doc, last.sel)
                                 /\ Id(doc) \in last.images.ks} IN
        /\ last.ret = want
        /\ last.op = "find_dict" =>
              /\ DOMAIN last.dict = IdsOf(want)
              /\ \A k \in DOMAIN last.dict :
                    last.dict[k] \in want /\ Id(last.dict[k]) = k

\* The entries of a ConfigSet: none for None and for the empty dict.
Entries(cfg) == IF cfg.isNone THEN EmptyFn ELSE cfg.d
Fragments(r) == {r.s[i] : i \in DOMAIN r.s}

\* C9: set_null_config(key, null) with a null that is not None sets key to
\* it, rendered -key null; with None it removes key, which is then in no
\* rendered output; and when key is missing it changes neither the entries
\* of the ConfigSet nor what make_config_command returns.
C9_NullSemantics ==
    [][cfgLast'.op = "set_null_config" /\ cfgLast' # cfgLast =>
          LET key == cfgLast'.key
              null == cfgLast'.val IN
          /\ null # None =>
                /\ key \in DOMAIN Entries(configs')
                /\ Entries(configs')[key] = null
                /\ \A r \in make_config_command(configs') :
                      <<key, null>> \in Fragments(r)
          /\ null = None =>
                /\ key \notin DOMAIN Entries(configs')
                /\ \A r \in make_config_command(configs') :
                      \A f \in Fragments(r) : f[1] # key
          /\ (null = None /\ key \notin DOMAIN Entries(configs)) =>
                /\ Entries(configs') = Entries(configs)
                /\ make_config_command(configs') = make_config_command(configs)
      ]_vars

\* C10: make_config_command returns exactly one " -KEY VALUE" fragment for
\* every key written and not removed since, with the value written last, and
\* the None sentinel whenever the ConfigSet holds no entry.
C10_RenderEveryKeyOnce ==
    cfgLast.op = "make_config_command" =>
        IF written = EmptyFn THEN cfgLast.ret = ReturnNone
        ELSE /\ ~cfgLast.ret.isNone
             /\ Len(cfgLast.ret.s) = Cardinality(DOMAIN written)
             /\ Fragments(cfgLast.ret) =
                   {<<k, written[k]>> : k \in DOMAIN written}

\* The options of the latest command, by key.
OptionsOf(cmd) == {cmd.opts[i] : i \in DOMAIN cmd.opts}
OptionKeys(cmd) == {f[1] : f \in OptionsOf(cmd)}

\* C11: the command of a Swarp built without weight paths has the option
\* -WEIGHT_TYPE NONE and no WEIGHT_IMAGE option, whatever the caller put in
\* the configs; built with weight paths, its WEIGHT_IMAGE option is the
\* @-prefixed path of the weight list.
C11_SwarpWeights ==
    command.prog = "swarp" =>
        IF ~swarp.useWeights
        THEN /\ <<"WEIGHT_TYPE", "NONE">> \in OptionsOf(command)
             /\ "WEIGHT_IMAGE" \notin OptionKeys(command)
        ELSE \A f \in OptionsOf(command) :
                /\ "WEIGHT_IMAGE" \in OptionKeys(command)
                /\ f[1] = "WEIGHT_IMAGE" =>
                      f[2] = "@" \o JoinPath(swarp.workDir,
                                 "weightlist" \o swarp.uniqueExt \o ".txt")

\* C11 witness: a Swarp without weight paths whose caller supplied
\* WEIGHT_IMAGE along with COMBINE_TYPE has made its command: COMBINE_TYPE
\* is in it, WEIGHT_IMAGE is not.
C11_Witness ==
    /\ command.prog = "swarp"
    /\ ~swarp.useWeights
    /\ <<"COMBINE_TYPE", "MEDIAN">> \in OptionsOf(command)
    /\ <<"WEIGHT_TYPE", "NONE">> \in OptionsOf(command)
    /\ "WEIGHT_IMAGE" \notin OptionKeys(command)

\* The call of run is over: it has returned or raised.
Over == phase \in {"returned", "raised"}
UnitKeys(i) == {batch.units[i][n] : n \in DOMAIN batch.units[i]}
\* The artifact paths of a record are in the store.
HasArtifacts(doc) ==
    IF batch.kind = "se"
    THEN reach(D(doc), CatalogKey) =
            Value(S(catalog_path(batch.workDir,
                                 catalogName(Id(doc), CatPostfix))))
    ELSE /\ reach(D(doc), CatalogKey).kind = "value"
         /\ reach(D(doc), PsfKey) =
               Value(S(psf_path(batch.workDir,
                                reach(D(doc), CatalogKey).n.v)))
         /\ batch.xmlKey # None =>
               reach(D(doc), <<batch.xmlKey>>).kind = "value"
\* The artifact paths of every record of unit i are in the store.
StoredUnit(i) ==
    \A k \in UnitKeys(i) : k \in IdsOf(c) => HasArtifacts(DocOf(c, k))
\* Unit i has a gather or configuration error.
GatherOrConfigError(i) ==
    \/ up[i].err \in {"KeyError", "TypeError", "IndexError"}
    \/ batch.kind = "se" /\ GatherSE(batch.units[i][1]) # "none"

\* C12: when the call of run is over and the tool process of one unit has
\* failed (no unit having a gather or configuration error), the artifact
\* paths of every other unit are in the store; for every worker count and in
\* debug mode.
C12_ToolFailureIsLocal ==
    ( /\ Over
      /\ \A i \in DOMAIN up : ~GatherOrConfigError(i) ) =>
        \A j \in DOMAIN up : up[j].proc = "fail" =>
            \A i \in DOMAIN up \ {j} : up[i].st = "saved" /\ StoredUnit(i)

\* C12 witness: a run has returned, the tool of unit 1 failed and the
\* record of unit 2 has its artifact path.
C12_Witness ==
    /\ phase = "returned"
    /\ up[1].proc = "fail" /\ up[2].proc = "ok"
    /\ \E k \in UnitKeys(2) : k \in IdsOf(c) /\ HasArtifacts(DocOf(c, k))

\* C13: when the gather or the configuration of a unit has raised, the run
\* still completes (it returns, so that the failed units can be told to the
\* caller) and every other unit has been run and its paths are in the store.
C13_ConfigErrorIsLocal ==
    ( /\ Over
      /\ \E j \in DOMAIN up : GatherOrConfigError(j) ) =>
        /\ phase = "returned"
        /\ \A i \in DOMAIN up : ~GatherOrConfigError(i) =>
              up[i].st = "saved" /\ StoredUnit(i)

\* The masked store has a record for the key.
Visible(key) == MongoFind(c, getitem_selector(key)) # {}

\* C14: a unit with a key that is absent from the store or hidden by the
\* mask fails at its gather: it is never run, on a reduced key set or
\* otherwise; and when the call is over the units whose keys are all there
\* have been run and their paths are in the store.
C14_AbsentKeyFailsUnit ==
    /\ \A i \in DOMAIN up :
          (\E k \in UnitKeys(i) : ~Visible(k)) =>
              up[i].st \in {"waiting", "failed"}
    /\ ( /\ Over
         /\ \E j \in DOMAIN up : \E k \in UnitKeys(j) : ~Visible(k)
         /\ \A i \in DOMAIN up :
               (\A k \in UnitKeys(i) : Visible(k)) => ~GatherOrConfigError(i) )
       => \A i \in DOMAIN up :
             (\A k \in UnitKeys(i) : Visible(k)) =>
                 up[i].st = "saved" /\ StoredUnit(i)

\* C15: when run of a source-extraction batch returns, with any number of
\* workers, the catalog field of every key k is <workDir>/<k>_<catPostfix>.fits.
C15_CatalogPerKey ==
    (batch.kind = "se" /\ phase = "returned") =>
        \A i \in DOMAIN up : \A k \in UnitKeys(i) :
            /\ k \in IdsOf(c)
            /\ reach(D(DocOf(c, k)), CatalogKey) =
                  Value(S(batch.workDir \o "/" \o k \o "_" \o CatPostfix
                          \o ".fits"))

\* C15 witness: a batch of two workers over img01 and img02 has returned
\* and each record has the catalog path of its own key.
C15_Witness ==
    /\ batch.kind = "se" /\ phase = "returned"
    /\ ~batch.debug /\ batch.nthreads = 2
    /\ reach(D(DocOf(c, "img01")), CatalogKey) =
          Value(S("se/img01_se_cat.fits"))
    /\ reach(D(DocOf(c, "img02")), CatalogKey) =
          Value(S("se/img02_se_cat.fits"))

\* C16: a second run of a coordinator that has run and returned changes
\* nothing in the store.
C16_SecondRunChangesNothing ==
    [][batch.runs >= 2 => c' = c]_vars

\* C16 witness: the second run has returned and the records have their
\* artifact paths.
C16_Witness ==
    /\ batch.runs = 2 /\ phase = "returned"
    /\ \A i \in DOMAIN up : \E k \in UnitKeys(i) :
          k \in IdsOf(c) /\ HasArtifacts(DocOf(c, k))

\* C17: the tool process of a unit is started after its command is made,
\* and no record of a unit is written before the tool process of the unit
\* has exited; the steps of different units interleave.
C17_ConfigureRunPersist ==
    [][\A i \in DOMAIN up \cap DOMAIN up' :
          /\ (up'[i].proc = "running" /\ up[i].proc # "running") =>
                up[i].st = "configured"
          /\ (\E k \in UnitKeys(i) \cap IdsOf(c) :
                 DocOf(c', k) # DocOf(c, k)) =>
                up[i].proc \in {"ok", "fail"}
      ]_vars

\* C17 witness: the paths of unit 1 are in the store while the tool of
\* unit 2 is still running.
C17_Witness ==
    /\ phase = "pool"
    /\ up[1].st = "saved" /\ StoredUnit(1)
    /\ up[2].proc = "running"

\* C18: a run has exactly one cycle per unit: never more than worker_count
\* units (one in debug mode) are in their cycle at a time, no unit is taken
\* twice, and when the call is over every unit has had its cycle and has
\* completed.
C18_OneCyclePerUnit ==
    /\ Cardinality({i \in DOMAIN up : Active(i)}) <= Slots
    /\ \A i \in DOMAIN up : up[i].cycles <= 1
    /\ Over => \A i \in DOMAIN up : up[i].cycles = 1 /\ Finished(i)

\* C19: in a run with two or more workers no file of a working directory is
\* written by more than one stage instance.
C19_OneWriterPerFile ==
    (~batch.debug /\ batch.nthreads >= 2) =>
        \A path \in DOMAIN writers : Cardinality(writers[path]) <= 1

\* C20: the defaults are dumped to a path only when no defaults file is
\* configured or the configured one is missing, only when the path does not
\* exist yet, so once per working directory; and the -c option of a stage that
\* has made its command is the path of its defaults file, which exists.
C20_DefaultsDumpedOnce ==
    [][ /\ \A path \in DOMAIN dumps' :
              Count(dumps', path) > Count(dumps, path) =>
                 /\ batch.defaultsPath = None
                       \/ batch.defaultsPath \notin disk
                 /\ path \notin disk
                 /\ Count(dumps', path) = 1
        /\ \A i \in DOMAIN up \cap DOMAIN up' :
              (up'[i].st = "configured" /\ up[i].st = "waiting") =>
                 /\ "c" \in DOMAIN up'[i].configs.d
                 /\ up'[i].configs.d["c"] \in disk'
      ]_vars

\* C22: a unit whose tool has exited with a non-zero status raises nothing:
\* the run of its stage returns normally and the unit is never a failed one,
\* and when the call of the coordinator's run has returned the unit is
\* complete and its artifact paths are in the store.
C22_FailedToolStillPersists ==
    \A i \in DOMAIN up : up[i].proc = "fail" =>
        /\ up[i].err = "none"
        /\ up[i].st \in {"launched", "returned", "saved"}
        /\ phase = "returned" => up[i].st = "saved" /\ StoredUnit(i)

\* C22 witness: a run has returned, the tool of unit 1 exited with a non-zero
\* status, and the store holds for its record a path of a file that is not
\* on the disk.
C22_Witness ==
    /\ phase = "returned"
    /\ up[1].proc = "fail" /\ up[1].st = "saved"
    /\ \E k \in UnitKeys(1) \cap IdsOf(c) :
          /\ HasArtifacts(DocOf(c, k))
          /\ \E path \in ToolOutputs(up[1]) :
                /\ path \notin disk
                /\ \E key \in {CatalogKey, PsfKey} :
                      reach(D(DocOf(c, k)), key) = Value(S(path))

\* The transitions of the life of a stage instance.
Lifecycle ==
    {<<"constructed", "configured">>, <<"configured", "running">>,
     <<"running", "completed">>}

\* C21: a stage instance moves only through constructed, configured, running
\* and completed, in that order, and is single-shot: once run has completed
\* the external tool is not launched again.
C21_SingleShot ==
    [][ /\ stage'.st # stage.st => <<stage.st, stage'.st>> \in Lifecycle
        /\ stage.st = "completed" => stage'.launches = stage.launches
      ]_vars
\* The entry of the server name in a settings file that is JSON of a dict
\* with a dict of servers.
HasServers(file) ==
    /\ file.there /\ file.json /\ file.j.t = "dict"
    /\ "servers" \in DOMAIN file.j.d
    /\ file.j.d["servers"].t = "dict"
HasEntry(file, name) ==
    /\ HasServers(file)
    /\ name \in DOMAIN file.j.d["servers"].d
EntryOf(file, name) == file.j.d["servers"].d[name]
HasFields(file, name) ==
    /\ HasEntry(file, name)
    /\ EntryOf(file, name).t = "dict"
    /\ {"url", "port"} \subseteq DOMAIN EntryOf(file, name).d

\* C23: locate_server never raises; it returns the url and port stored under
\* servers[name] when both are there, and ('localhost', 27017) when the
\* settings file is missing, the name is unknown or a field is absent.
C23_LocateServer ==
    settings.op = "locate_server" =>
        LET file == settings.file
            name == settings.servername IN
        /\ settings.ret.kind = "value"
        /\ HasFields(file, name) =>
              /\ settings.ret.url = EntryOf(file, name).d["url"]
              /\ settings.ret.port = EntryOf(file, name).d["port"]
        /\ ( \/ ~file.there
             \/ HasServers(file) /\ ~HasEntry(file, name)
             \/ /\ HasEntry(file, name) /\ EntryOf(file, name).t = "dict"
                /\ ~HasFields(file, name) ) =>
              /\ settings.ret.url = DefaultUrl
              /\ settings.ret.port = DefaultPort
\* The paths of a list of entries, those of an entry that is a list in its
\* place.
PathsOf(entries) ==
    Flatten([i \in DOMAIN entries |->
                IF entries[i].list THEN entries[i].ps ELSE <<entries[i].p>>])
\* The text is one line per path, in order, each ended by a newline (and a
\* single newline when there is no path).
OneLinePerPath(text, paths) ==
    /\ text # <<>> /\ text[Len(text)] = Newline
    /\ IF paths = <<>> THEN text = <<Newline>> ELSE Lines(text) = paths
\* The paths a Swarp or Scamp instance puts in the list its command names.
ListedByCommand ==
    IF stage.kind = "swarp"
    THEN {stage.swarpInputs[k].path : k \in DOMAIN stage.swarpInputs}
    ELSE {stage.catalogPaths[i] : i \in DOMAIN stage.catalogPaths}

\* C24: after write_input_file_list has returned a path, the file at the
\* path holds nothing of a previous list: it is one line per input path, in
\* input order, with a trailing newline, the paths of an entry that is a list
\* (Swarp) each on a line of their own; and the command of a Swarp or Scamp
\* names its list file as @<path>.
C24_InputFileList ==
    /\ (stage.ret.op = "write_input_file_list" /\ stage.ret.kind = "value")
         => /\ stage.ret.v \in DOMAIN files
            /\ stage.ret.v \in disk
            /\ OneLinePerPath(files[stage.ret.v], PathsOf(stage.listed))
    /\ ( /\ stage.ret.op = "make_command" /\ stage.ret.kind = "value"
         /\ stage.kind \in {"swarp", "scamp"} )
         => \E path \in DOMAIN files :
               /\ command.input = "@" \o path
               /\ path \in disk
               /\ files[path][Len(files[path])] = Newline
               /\ {Lines(files[path])[i] : i \in DOMAIN Lines(files[path])}
                     = ListedByCommand

\* C24 witness: a Swarp that made its command, and so wrote inputlist.txt
\* with its images, was then given a list with a nested entry under the same
\* name; the file holds the three paths of the new list only.
C24_Witness ==
    /\ stage.kind = "swarp" /\ stage.st = "configured"
    /\ stage.ret.op = "write_input_file_list" /\ stage.ret.arg = "inputlist"
    /\ stage.ret.kind = "value"
    /\ \E i \in DOMAIN stage.listed : stage.listed[i].list
    /\ Lines(files[stage.ret.v]) =
          <<"r/img01.0002.fits", "r/img01.0001.fits", "raw/img02.fits">>
\* The types set on the stage by a set_check_images that registered a path
\* for each of them.
TypesSet ==
    IF stage.checkList.isNone \/ stage.checkPaths.isNone
       \/ Len(stage.checkPaths.l) # Len(stage.checkList.l)
    THEN {}
    ELSE {stage.checkList.l[i] : i \in DOMAIN stage.checkList.l}
\* set_check_images raised on an unknown type and left the lists unequal.
HalfSet ==
    /\ ~stage.checkList.isNone
    /\ stage.checkPaths.isNone
          \/ Len(stage.checkPaths.l) # Len(stage.checkList.l)

\* C25: check_path(checkType) returns the path at the position of checkType
\* in the check list when set_check_images has set the type, and None when
\* the type is not among the types set on the stage.
C25_CheckPath ==
    (stage.ret.op = "check_path" /\ ~HalfSet) =>
        IF stage.ret.arg \in TypesSet
        THEN /\ stage.ret.kind = "value"
             /\ \E i \in DOMAIN stage.checkList.l :
                   /\ stage.checkList.l[i] = stage.ret.arg
                   /\ stage.checkPaths.l[i] = stage.ret.v
        ELSE stage.ret.kind = "None"
\* C26: in a call of decompress_fits a selected record is skipped only when
\* overwrite is False and its output file was there and recorded under
\* decompKey; a record that is not skipped is handed to funpack and has
\* decompKey set to its output path; and with overwrite=True an output file
\* that was there is removed and the record is handed to funpack again.
C26_DecompressSkip ==
    [][ (decomp'.calls = decomp.calls + 1 /\ decomp'.err = "none") =>
          \A u \in decomp'.plan :
            LET doc == DocOf(c, u.key)
                key == decomp'.decompKey
                present == u.outputPath \in disk
                recorded == /\ key \in DOMAIN doc
                            /\ doc[key] = S(u.outputPath) IN
            /\ u.skipped => ~decomp'.overwrite /\ present /\ recorded
            /\ ~u.skipped =>
                  /\ u.key \in decomp'.launched
                  /\ key \in DOMAIN DocOf(c', u.key)
                  /\ DocOf(c', u.key)[key] = S(u.outputPath)
            /\ (decomp'.overwrite /\ present) =>
                  /\ u.removed
                  /\ ~u.skipped /\ u.key \in decomp'.launched
      ]_vars
\* C27: make_command of a stage that was constructed without configs
\* (configs=None), called by the user or at the start of run, returns a
\* command, for every stage class; a stage that needs a reference catalog
\* option (useFileRefs) is left aside.
C27_NoConfigsMakesCommand ==
    ( /\ stage.asked.configs = ConfigNone
      /\ ~stage.asked.useFileRefs
      /\ stage.ret.op \in {"make_command", "run"} ) =>
        /\ stage.ret.kind \in {"value", "None"}
        /\ ~stage.configs.isNone
        /\ command.prog # "none"
\* C28: the input list of the command a Swarp has made holds every path of
\* imagePaths exactly once, and when weights are used the weight list has as
\* many lines and its i-th line is the weight of the image of the i-th line
\* of the input list.
C28_SwarpListsComplete ==
    ( /\ stage.kind = "swarp"
      /\ stage.ret.op = "make_command" /\ stage.ret.kind = "value" ) =>
        \E listPath \in DOMAIN files :
            LET lines == Lines(files[listPath]) IN
            /\ command.input = "@" \o listPath
            /\ Len(lines) = Len(stage.imagePaths)
            /\ \A i \in DOMAIN stage.imagePaths :
                  Cardinality({n \in DOMAIN lines :
                                  lines[n] = stage.imagePaths[i]}) = 1
            /\ stage.useWeights =>
                  \E weightListPath \in DOMAIN files :
                      LET weights == Lines(files[weightListPath]) IN
                      /\ <<"WEIGHT_IMAGE", "@" \o weightListPath>>
                            \in OptionsOf(command)
                      /\ Len(weights) = Len(lines)
                      /\ \A n \in DOMAIN weights :
                            \E key \in DOMAIN stage.swarpInputs :
                               /\ stage.swarpInputs[key].path = lines[n]
                               /\ stage.swarpInputs[key].weight = weights[n]
\* C30: a stage that has made its command is configured as its constructor
\* or factory was asked: a Swarp names its input list (and its weight list)
\* with the suffix uniqueExt it was asked for, and a Scamp asked to use
\* file references takes its reference catalog from files.
C30_FactoryAsDirect ==
    (stage.ret.op = "make_command" /\ stage.ret.kind = "value") =>
        /\ stage.kind = "swarp" =>
              /\ stage.uniqueExt = stage.asked.uniqueExt
              /\ command.input =
                    "@" \o JoinPath("mosaic", "inputlist"
                                    \o stage.asked.uniqueExt \o ".txt")
              /\ stage.useWeights =>
                    <<"WEIGHT_IMAGE",
                      "@" \o JoinPath("mosaic", "weightlist"
                                      \o stage.asked.uniqueExt \o ".txt")>>
                        \in OptionsOf(command)
        /\ stage.kind = "scamp" =>
              /\ stage.useFileRefs = stage.asked.useFileRefs
              /\ stage.asked.useFileRefs =>
                    <<"ASTREF_CATALOG", "FILE">> \in OptionsOf(command)
\* C29: in a source-extraction batch, with the pool and in debug mode alike,
\* the options of the command of a unit are those of the unit itself (the
\* defaults file, its own catalog name, its check images) on top of the
\* configs given to the coordinator, and no step of the run changes the
\* configs dictionary the caller gave.
C29_DebugAsPool ==
    [][ batch.kind = "se" =>
          /\ batch'.configs = batch.configs
          /\ \A i \in DOMAIN up \cap DOMAIN up' :
                (up[i].st = "waiting" /\ up'[i].st = "configured") =>
                   /\ DOMAIN up'[i].configs.d =
                         {"c", "CATALOG_NAME", "CHECKIMAGE_TYPE"}
                   /\ up'[i].configs.d["CATALOG_NAME"] =
                         "se/" \o batch.units[i][1] \o "_se_cat.fits"
      ]_vars
====
